---------------------------- MODULE Spec2Model ----------------------------
(***************************************************************************)
(* Model of the paper_to_presentation pipeline of slide-renderer:          *)
(*   phase1_plan_presentation      (planning.py)                           *)
(*   phase2_generate_slide         (generator.py, retry loop)              *)
(*   phase2_generate_all_slides    (generator.py, asyncio.gather)          *)
(*   convert_paper_to_presentation (converter.py)                          *)
(*   render_slides_to_markdown     (paper_to_presentation/renderer.py)     *)
(* together with the pydantic models of models.py and schemas/content.py.  *)
(*                                                                         *)
(* JSON values are records tagged by kind:                                 *)
(*   [k |-> "str", len |-> n]     a string of n characters                 *)
(*   [k |-> "tag", tok |-> s]     a string whose text is s                 *)
(*   [k |-> "int", v |-> n]       an integer                               *)
(*   [k |-> "list", items |-> q]  an array                                 *)
(* and a JSON object is a TLA+ record (a function from its keys).          *)
(* Texts that the program only passes on (prompts, error messages) are     *)
(* sequences of tokens.                                                    *)
(***************************************************************************)
EXTENDS Integers, Sequences, FiniteSets, TLC

(***************************************************************************)
(* Bounds of the model.                                                    *)
(***************************************************************************)
\* largest number of outlines in a plan handed to phase 2
MaxSlides == 3
\* largest max_retries a direct caller of phase2_generate_slide passes
MaxRetriesBound == 3
\* the largest number of outlines in a plan of the planning collaborator
MaxPlanned == 2
\* the largest number of entries in a batch handed to the renderer
MaxBatch == 3
\* the most calls a caller makes on one renderer
MaxCalls == 3
\* the largest number of slides in a list handed to render_slides_to_markdown
MaxDeck == 2

(***************************************************************************)
(* Program constants.                                                      *)
(***************************************************************************)
\* generator.py: max_retries: int = 2
DefaultMaxRetries == 2
\* converter.py: max_slides: int = 10
DefaultMaxSlides == 10

(***************************************************************************)
(* JSON values.                                                            *)
(***************************************************************************)
Txt(n) == [k |-> "str", len |-> n]
Tag(s) == [k |-> "tag", tok |-> s]
Num(n) == [k |-> "int", v |-> n]
List(q) == [k |-> "list", items |-> q]

\* models.py SlideType: the 14 slide type values
SlideType ==
    { "title_slide", "section_title", "single_content_with_image", "highlight",
      "two_column_list", "vertical_list", "horizontal_3_column_list",
      "two_columns_with_grid", "horizontal_4_column_list",
      "image_with_description_2", "image_with_description_3",
      "three_column_metrics", "metrics_grid", "quote" }

(***************************************************************************)
(* Field specifications of a pydantic model: Field(max_length=...),        *)
(* Field(min_length=..., max_length=...) on a List, an Enum, an int.       *)
(***************************************************************************)
StrF(name, max) ==
    [name |-> name, kind |-> "str", bounded |-> TRUE, min |-> 0, max |-> max, item |-> << >>]
StrUnbounded(name) ==
    [name |-> name, kind |-> "str", bounded |-> FALSE, min |-> 0, max |-> 0, item |-> << >>]
EnumF(name) ==
    [name |-> name, kind |-> "enum", bounded |-> FALSE, min |-> 0, max |-> 0, item |-> << >>]
IntF(name) ==
    [name |-> name, kind |-> "int", bounded |-> FALSE, min |-> 0, max |-> 0, item |-> << >>]
ListF(name, item, min, max) ==
    [name |-> name, kind |-> "list", bounded |-> TRUE, min |-> min, max |-> max, item |-> item]
ListUnbounded(name, item) ==
    [name |-> name, kind |-> "list", bounded |-> FALSE, min |-> 0, max |-> 0, item |-> item]

\* models.py: class ListItem
ListItem == << StrF("title", 100), StrF("description", 300) >>
\* models.py: class ImageItem
ImageItem == << StrF("url", 500), StrF("alt_text", 200) >>
\* models.py: class MetricValue
MetricValue == << StrF("value", 20), StrF("label", 50) >>
\* models.py: class MetricWithDescription
MetricWithDescription == << StrF("value", 20), StrF("description", 150) >>
\* models.py: class SlideOutline
SlideOutline ==
    << IntF("slide_number"), EnumF("type"), StrF("purpose", 200), StrF("key_points", 500) >>

\* models.py: SLIDE_TYPE_MODELS and the content model classes it names
SLIDE_TYPE_MODELS(tag) ==
    CASE tag = "title_slide" ->
            << EnumF("type"), StrF("title", 80), StrF("subtitle", 120) >>
      [] tag = "section_title" ->
            << EnumF("type"), StrF("title", 60) >>
      [] tag = "single_content_with_image" ->
            << EnumF("type"), StrF("title", 60), StrF("description", 300),
               StrF("image_url", 500), StrF("image_alt", 200) >>
      [] tag = "highlight" ->
            << EnumF("type"), StrF("title", 40), StrF("content", 200) >>
      [] tag = "two_column_list" ->
            << EnumF("type"), StrF("title", 60), ListF("items", ListItem, 2, 4) >>
      [] tag = "vertical_list" ->
            << EnumF("type"), StrF("title", 60), ListF("items", ListItem, 3, 6) >>
      [] tag = "horizontal_3_column_list" ->
            << EnumF("type"), StrF("title", 60), ListF("items", ListItem, 3, 3) >>
      [] tag = "two_columns_with_grid" ->
            << EnumF("type"), StrF("title", 60), ListF("items", ListItem, 4, 4) >>
      [] tag = "horizontal_4_column_list" ->
            << EnumF("type"), StrF("title", 60), ListF("items", ListItem, 4, 4) >>
      [] tag = "image_with_description_2" ->
            << EnumF("type"), StrF("title", 60), ListF("images", ImageItem, 2, 2),
               ListF("items", ListItem, 2, 2) >>
      [] tag = "image_with_description_3" ->
            << EnumF("type"), StrF("title", 60), ListF("images", ImageItem, 3, 3),
               ListF("items", ListItem, 3, 3) >>
      [] tag = "three_column_metrics" ->
            << EnumF("type"), StrF("title", 60),
               ListF("metrics", MetricWithDescription, 3, 3) >>
      [] tag = "metrics_grid" ->
            << EnumF("type"), StrF("title", 40), StrF("description", 200),
               ListF("metrics", MetricValue, 4, 4) >>
      [] tag = "quote" ->
            << EnumF("type"), StrF("quote", 200), StrF("author", 80) >>

\* models.py 191-206: the keys of SLIDE_TYPE_MODELS, the values of the
\* members of SlideType they name
SlideTypeModelKeys ==
    { "title_slide", "section_title", "single_content_with_image", "highlight",
      "two_column_list", "vertical_list", "horizontal_3_column_list",
      "two_columns_with_grid", "horizontal_4_column_list",
      "image_with_description_2", "image_with_description_3",
      "three_column_metrics", "metrics_grid", "quote" }

\* models.py: class names, as they head a pydantic ValidationError
GenModelName(tag) ==
    CASE tag = "title_slide" -> "TitleSlideContent"
      [] tag = "section_title" -> "SectionTitleContent"
      [] tag = "single_content_with_image" -> "SingleContentWithImageContent"
      [] tag = "highlight" -> "HighlightContent"
      [] tag = "two_column_list" -> "TwoColumnListContent"
      [] tag = "vertical_list" -> "VerticalListContent"
      [] tag = "horizontal_3_column_list" -> "Horizontal3ColumnListContent"
      [] tag = "two_columns_with_grid" -> "TwoColumnsWithGridContent"
      [] tag = "horizontal_4_column_list" -> "Horizontal4ColumnListContent"
      [] tag = "image_with_description_2" -> "ImageWithDescription2Content"
      [] tag = "image_with_description_3" -> "ImageWithDescription3Content"
      [] tag = "three_column_metrics" -> "ThreeColumnMetricsContent"
      [] tag = "metrics_grid" -> "MetricsGridContent"
      [] tag = "quote" -> "QuoteContent"

\* models.py: PresentationPlan
PresentationPlan ==
    << StrF("title", 100), IntF("total_slides"), ListUnbounded("slides", SlideOutline) >>

(***************************************************************************)
(* pydantic validation of a mapping against a model: the errors, in field  *)
(* order, as tokens "<location>", "<error type>".                          *)
(***************************************************************************)
\* a max_length that rejects a string of exactly that many characters
ScalarErrorsExclusive(f, d, loc) ==
    IF f.name \notin DOMAIN d THEN << loc, "missing" >>
    ELSE LET v == d[f.name] IN
         CASE f.kind = "str" ->
                IF v.k = "tag" THEN << >>
                ELSE IF v.k # "str" THEN << loc, "string_type" >>
                ELSE IF f.bounded /\ v.len >= f.max THEN << loc, "string_too_long" >>
                ELSE << >>
           [] f.kind = "enum" ->
                IF v.k = "tag" /\ v.tok \in SlideType THEN << >> ELSE << loc, "enum" >>
           [] f.kind = "int" ->
                IF v.k = "int" THEN << >> ELSE << loc, "int_type" >>
           [] OTHER -> << >>

\* fields that have a default: an absent one is no error
ScalarErrorsDefaulting(f, d, loc) ==
    IF f.name \notin DOMAIN d THEN << >>
    ELSE LET v == d[f.name] IN
         CASE f.kind = "str" ->
                IF v.k = "tag" THEN << >>
                ELSE IF v.k # "str" THEN << loc, "string_type" >>
                ELSE IF f.bounded /\ v.len > f.max THEN << loc, "string_too_long" >>
                ELSE << >>
           [] f.kind = "enum" ->
                IF v.k = "tag" /\ v.tok \in SlideType THEN << >> ELSE << loc, "enum" >>
           [] f.kind = "int" ->
                IF v.k = "int" THEN << >> ELSE << loc, "int_type" >>
           [] OTHER -> << >>

\* one scalar field of a mapping d at location loc
ScalarErrors(f, d, loc) ==
    IF f.name \notin DOMAIN d THEN << loc, "missing" >>
    ELSE LET v == d[f.name] IN
         CASE f.kind = "str" ->
                IF v.k = "tag" THEN << >>
                ELSE IF v.k # "str" THEN << loc, "string_type" >>
                ELSE IF f.bounded /\ v.len > f.max THEN << loc, "string_too_long" >>
                ELSE << >>
           [] f.kind = "enum" ->
                IF v.k = "tag" /\ v.tok \in SlideType THEN << >> ELSE << loc, "enum" >>
           [] f.kind = "int" ->
                IF v.k = "int" THEN << >> ELSE << loc, "int_type" >>
           [] OTHER -> << >>

RECURSIVE ItemFieldErrors(_, _, _, _)
\* the fields k..Len(schema) of one list item
ItemFieldErrors(schema, d, loc, k) ==
    IF k > Len(schema) THEN << >>
    ELSE ScalarErrors(schema[k], d, loc \o "." \o schema[k].name)
            \o ItemFieldErrors(schema, d, loc, k + 1)

RECURSIVE ItemsErrors(_, _, _, _)
\* the items k..Len(items) of a list field
ItemsErrors(schema, items, loc, k) ==
    IF k > Len(items) THEN << >>
    ELSE ItemFieldErrors(schema, items[k], loc \o "." \o ToString(k - 1), 1)
            \o ItemsErrors(schema, items, loc, k + 1)

\* a list field without min_length and max_length
FieldErrorsAnyLength(f, d) ==
    IF f.kind # "list" THEN ScalarErrors(f, d, f.name)
    ELSE IF f.name \notin DOMAIN d THEN << f.name, "missing" >>
    ELSE LET v == d[f.name] IN
         IF v.k # "list" THEN << f.name, "list_type" >>
         ELSE ItemsErrors(f.item, v.items, f.name, 1)

\* one field of a top-level mapping
FieldErrors(f, d) ==
    IF f.kind # "list" THEN ScalarErrors(f, d, f.name)
    ELSE IF f.name \notin DOMAIN d THEN << f.name, "missing" >>
    ELSE LET v == d[f.name] IN
         IF v.k # "list" THEN << f.name, "list_type" >>
         ELSE IF f.bounded /\ Len(v.items) < f.min THEN << f.name, "too_short" >>
         ELSE IF f.bounded /\ Len(v.items) > f.max THEN << f.name, "too_long" >>
         ELSE ItemsErrors(f.item, v.items, f.name, 1)

RECURSIVE ModelErrors(_, _, _)
\* BaseModel.__init__(**d): the errors of fields k..Len(schema)
ModelErrors(schema, d, k) ==
    IF k > Len(schema) THEN << >>
    ELSE FieldErrors(schema[k], d) \o ModelErrors(schema, d, k + 1)

RECURSIVE DumpItems(_, _, _)
\* model_dump() of the items k..Len(items) of a list field
DumpItems(schema, items, k) ==
    IF k > Len(items) THEN << >>
    ELSE << [n \in { schema[x].name : x \in 1..Len(schema) } \cap DOMAIN items[k] |->
                items[k][n]] >>
            \o DumpItems(schema, items, k + 1)

\* a dump that keeps the keys that are no field
ModelDumpKeepingExtras(schema, d) == d

\* a dump that leaves the items of a list field as model instances
ModelDumpShallow(schema, d) ==
    [n \in { schema[k].name : k \in 1..Len(schema) } \cap DOMAIN d |->
        LET f == CHOOSE g \in { schema[k] : k \in 1..Len(schema) } : g.name = n
        IN  IF f.kind = "list"
            THEN List([i \in 1..Len(d[n].items) |-> [model |-> d[n].items[i]]])
            ELSE d[n]]

\* BaseModel.model_dump() of a validated mapping: the model's fields (a
\* validated mapping has them all), nested models dumped likewise, keys that
\* are no field dropped
ModelDump(schema, d) ==
    [n \in { schema[k].name : k \in 1..Len(schema) } \cap DOMAIN d |->
        LET f == CHOOSE g \in { schema[k] : k \in 1..Len(schema) } : g.name = n
        IN  IF f.kind = "list" THEN List(DumpItems(f.item, d[n].items, 1)) ELSE d[n]]

\* str(e) of a pydantic ValidationError: the count, the model, the errors
ValidationErrorText(name, errs) ==
    << ToString(Len(errs) \div 2), "validation error(s) for", name >> \o errs

(***************************************************************************)
(* The inputs of the pipeline.                                             *)
(***************************************************************************)
\* paper_data: {title, sections: {...}}, {abstract, method, ...}, a mapping
\* whose "sections" is no dict, a paper with a "figures" value that is no list
PaperKinds == { "nested", "flat", "sections_not_dict", "figures_not_iterable" }

\* generator.py 40-55, planning.py 37-50: sections.get(...) on a value that
\* is no dict raises AttributeError, before any collaborator call
PreambleRaises(p) == p = "sections_not_dict"

\* generator.py 40-46: the title put into the prompt
PaperTitle(p) == IF p = "flat" THEN "Attention Is All You Need" ELSE "paper_data.title"

\* a validated SlideOutline
Outline(n, tag) ==
    [slide_number |-> Num(n), type |-> Tag(tag), purpose |-> Txt(200), key_points |-> Txt(500)]

\* the slide types of the outlines of the model's plans, by position
TypeAt(n) == IF n % 2 = 1 THEN "title_slide" ELSE "quote"

(***************************************************************************)
(* The text-generation collaborator of phase 2: a fault with its message,  *)
(* a text that is no JSON, or a JSON object.                               *)
(***************************************************************************)
FaultTexts == { << >>, << "Connection error." >> }

SlideCandidates ==
    { [type |-> Tag("title_slide"), title |-> Txt(80), subtitle |-> Txt(120)],
      [type |-> Tag("quote"), title |-> Txt(10), subtitle |-> Txt(5), notes |-> Txt(1)],
      [type |-> Tag("title_slide"), title |-> Txt(81), subtitle |-> Txt(5)],
      [type |-> Tag("quote"), quote |-> Txt(200), author |-> Txt(80)] }

SlideResponses ==
    { [kind |-> "fault", text |-> t] : t \in FaultTexts }
        \cup { [kind |-> "text"] }
        \cup { [kind |-> "json", data |-> c] : c \in SlideCandidates }

\* the responses drawn in a batch of tasks: a fault, and the JSON objects
\* that are valid for one of the slide types of the batch
BatchResponses ==
    { [kind |-> "fault", text |-> << "Connection error." >>] }
        \cup { [kind |-> "json", data |-> c] :
                 c \in { d \in SlideCandidates :
                           \E n \in 1..2 : ModelErrors(SLIDE_TYPE_MODELS(TypeAt(n)), d, 1) = << >> } }

(***************************************************************************)
(* phase2_generate_slide                                                   *)
(***************************************************************************)
\* generator.py 112: validation_feedback = None, and 164: str(e)
NoFeedback == [none |-> TRUE, text |-> << >>]
Feedback(t) == [none |-> FALSE, text |-> t]
\* the truth value of validation_feedback (None and "" are false)
Truthy(fb) == ~fb.none /\ fb.text # << >>

\* generator.py 73-110: the prompt of a slide
Prompt(o, p) ==
    << "Generate slide content following the plan.",
       "Number:", ToString(o.slide_number.v),
       "Type:", o.type.tok,
       "Purpose:", ToString(o.purpose.len),
       "Key Points:", ToString(o.key_points.len),
       "Title:", PaperTitle(p),
       "Schema:", GenModelName(o.type.tok),
       "Generate the slide as JSON now." >>

\* a retry prompt that announces the feedback and leaves the error out
RetryPromptWithoutError(o, p, fb) ==
    Prompt(o, p)
        \o << "**VALIDATION FEEDBACK FROM PREVIOUS ATTEMPT**:",
              "The previous generation failed validation with the following error:" >>
        \o << "**CRITICAL**: Fix the above validation errors.",
              "Regenerate the slide with ALL validation errors fixed." >>

\* generator.py 124-137: the prompt of a retry
RetryPrompt(o, p, fb) ==
    Prompt(o, p)
        \o << "**VALIDATION FEEDBACK FROM PREVIOUS ATTEMPT**:",
              "The previous generation failed validation with the following error:" >>
        \o fb.text
        \o << "**CRITICAL**: Fix the above validation errors.",
              "Regenerate the slide with ALL validation errors fixed." >>

\* generator.py 118-140: the messages of attempt a
Messages(o, p, a, fb) ==
    [system |-> << "Generate a", o.type.tok, "slide. Output valid JSON only." >>,
     user |-> IF Truthy(fb) /\ a > 0 THEN RetryPrompt(o, p, fb) ELSE Prompt(o, p)]

\* generator.py 142-152: the exception text of an attempt that got response r
\* (the collaborator's fault, json.loads, content_model(**slide_data))
AttemptError(tag, r) ==
    CASE r.kind = "fault" -> r.text
      [] r.kind = "text" -> << "Expecting value: line 1 column 1 (char 0)" >>
      [] r.kind = "json" ->
            ValidationErrorText(GenModelName(tag),
                                ModelErrors(SLIDE_TYPE_MODELS(tag), r.data, 1))

\* a try block that raises after validation too (the success path fails)
AttemptRaisesAlways(tag, r) == TRUE

\* generator.py 142-162: whether the try block of an attempt raises
AttemptRaises(tag, r) ==
    r.kind # "json" \/ ModelErrors(SLIDE_TYPE_MODELS(tag), r.data, 1) # << >>

\* a handler that catches pydantic's ValidationError only
ExceptValidationErrorOnly(r) == r.kind = "json"

\* generator.py 162: except Exception as e, which catches the collaborator's
\* fault, json.loads' JSONDecodeError and pydantic's ValidationError alike
ExceptException(r) == r.kind \in { "fault", "text", "json" }

\* range(max_retries): one iteration short
LoopRangeShort(R) == 0..(R - 1)

\* generator.py 115: range(max_retries + 1)
LoopRange(R) == 0..R

\* generator.py 166: if attempt < max_retries
WillRetry(a, R) == a < R

VARIABLES
    entry,       \* the function the caller called
    paper,       \* its paper_data
    apiKey,      \* whether UPSTAGE_API_KEY is set in the environment
    plan,        \* the PresentationPlan (given by the caller or by phase 1)
    maxRetries,  \* max_retries of the generate_slide tasks
    outlines,    \* the slide_outline of each task
    task,        \* each task's frame: st, attempt, validation_feedback, messages
    outcome,     \* what each task returned or raised
    calls,       \* the collaborator calls each task has made
    inflight,    \* the attempts of each task whose call has not returned
    lastResp,    \* the response each task handled last
    failures,    \* the attempts of each task that have failed
    outOfOrder,  \* whether a task finished before a task of a lower position
    orch,        \* phase2_generate_all_slides: idle, gathering, returned, raised
    slidesOut,   \* the list phase2_generate_all_slides returned
    maxSlides,   \* max_slides of the call
    p1,          \* phase1_plan_presentation: idle, returned, raised
    p1Resp,      \* the response of the planning collaborator, if it was called
    p1Error,     \* the type of the exception phase 1 raised
    conv,        \* convert_paper_to_presentation: start, planning, generating,
                 \* rendering, returned, raised (idle when it was not called)
    rendered,    \* whether render_slides_to_markdown has been called
    output,      \* the output document written to output_file
    args,        \* the arguments of a direct call of the renderer
    result,      \* what that call returned or raised
    heap,        \* the objects a caller holds and passes to several calls
    history,     \* the calls such a caller has made, with what they returned
    loaded       \* the templates in the cache of the caller's SlideRenderer

callVars == << entry, paper, apiKey, maxSlides, args >>
planVars == << p1, p1Resp, p1Error >>
convVars == << conv, rendered, output >>
sessionVars == << heap, history, loaded >>
taskVars == << task, outcome, calls, inflight, lastResp, failures, outOfOrder >>
vars == << entry, paper, apiKey, plan, maxRetries, outlines, task, outcome, calls,
           inflight, lastResp, failures, outOfOrder, orch, slidesOut, maxSlides,
           p1, p1Resp, p1Error, conv, rendered, output, args, result,
           heap, history, loaded >>

Tasks == 1..Len(outlines)

\* a coroutine that has not run yet
Created == [st |-> "created", attempt |-> 0, validation_feedback |-> NoFeedback,
            messages |-> [system |-> << >>, user |-> << >>]]
\* a coroutine that returned or raised: its frame is gone
Finished(st) == [Created EXCEPT !.st = st]
\* a frame whose validation_feedback is one variable shared by all tasks:
\* the feedback of the first task that has one replaces the task's own
AwaitingSharedFeedback(o, p, a, fb) ==
    LET have == { j \in DOMAIN task : Truthy(task[j].validation_feedback) }
        shared == IF have = {} THEN fb
                  ELSE task[CHOOSE j \in have : \A x \in have : j <= x].validation_feedback
    IN  [st |-> "awaiting", attempt |-> a, validation_feedback |-> shared,
         messages |-> Messages(o, p, a, shared)]

\* a coroutine awaiting the collaborator in attempt a
Awaiting(o, p, a, fb) ==
    [st |-> "awaiting", attempt |-> a, validation_feedback |-> fb,
     messages |-> Messages(o, p, a, fb)]

Pending == [kind |-> "pending"]
ReturnedNone == [kind |-> "none"]
ReturnedContent(c) == [kind |-> "content", content |-> c]
Raised(t) == [kind |-> "exception", text |-> t]
NoResponse == [kind |-> "nothing"]
NoPlan == [kind |-> "none"]
NoFile == [kind |-> "nofile"]
NoArgs == [kind |-> "noargs"]
NoResult == [kind |-> "noresult"]

IsDone(t) == t.st \in { "returned", "raised" }

\* task i finishes in this step while a task before it has not
Overtakes(i) == IsDone(task'[i]) /\ \E j \in 1..(i - 1) : ~IsDone(task[j])

\* the first step of the coroutine: generator.py 35-142, up to the first await
TaskStart(i) ==
    /\ task[i].st = "created"
    /\ IF PreambleRaises(paper)
       THEN /\ task' = [task EXCEPT ![i] = Finished("raised")]
            /\ outcome' = [outcome EXCEPT ![i] = Raised(<< "AttributeError" >>)]
            /\ UNCHANGED << calls, inflight >>
       ELSE IF 0 \in LoopRange(maxRetries)
       THEN /\ task' = [task EXCEPT ![i] = Awaiting(outlines[i], paper, 0, NoFeedback)]
            /\ calls' = [calls EXCEPT ![i] = @ + 1]
            /\ inflight' = [inflight EXCEPT ![i] = @ \cup {0}]
            /\ UNCHANGED outcome
       ELSE /\ task' = [task EXCEPT ![i] = Finished("returned")]
            /\ outcome' = [outcome EXCEPT ![i] = ReturnedNone]
            /\ UNCHANGED << calls, inflight >>
    /\ outOfOrder' = (outOfOrder \/ Overtakes(i))
    /\ UNCHANGED << callVars, sessionVars, result, plan, maxRetries, outlines, lastResp, failures, orch, slidesOut,
                    planVars, convVars >>

\* the collaborator's response r reaches the task: generator.py 150-173, and
\* the next iteration up to its await
TaskRespond(i, r) ==
    /\ task[i].st = "awaiting"
    /\ LET tag == outlines[i].type.tok
           a == task[i].attempt
       IN  IF ~AttemptRaises(tag, r)
           THEN /\ task' = [task EXCEPT ![i] = Finished("returned")]
                /\ outcome' = [outcome EXCEPT ![i] =
                        ReturnedContent(ModelDump(SLIDE_TYPE_MODELS(tag), r.data))]
                /\ inflight' = [inflight EXCEPT ![i] = @ \ {a}]
                /\ UNCHANGED << calls, failures >>
           ELSE IF ~ExceptException(r)
           THEN /\ task' = [task EXCEPT ![i] = Finished("raised")]
                /\ outcome' = [outcome EXCEPT ![i] = Raised(AttemptError(tag, r))]
                /\ inflight' = [inflight EXCEPT ![i] = @ \ {a}]
                /\ failures' = [failures EXCEPT ![i] = @ + 1]
                /\ UNCHANGED calls
           ELSE IF WillRetry(a, maxRetries) /\ a + 1 \in LoopRange(maxRetries)
           THEN /\ task' = [task EXCEPT ![i] =
                        Awaiting(outlines[i], paper, a + 1, Feedback(AttemptError(tag, r)))]
                /\ calls' = [calls EXCEPT ![i] = @ + 1]
                /\ inflight' = [inflight EXCEPT ![i] = (@ \ {a}) \cup {a + 1}]
                /\ failures' = [failures EXCEPT ![i] = @ + 1]
                /\ UNCHANGED outcome
           ELSE /\ task' = [task EXCEPT ![i] = Finished("returned")]
                /\ outcome' = [outcome EXCEPT ![i] = ReturnedNone]
                /\ inflight' = [inflight EXCEPT ![i] = @ \ {a}]
                /\ failures' = [failures EXCEPT ![i] = @ + 1]
                /\ UNCHANGED calls
    /\ lastResp' = [lastResp EXCEPT ![i] = r]
    /\ outOfOrder' = (outOfOrder \/ Overtakes(i))
    /\ UNCHANGED << callVars, sessionVars, result, plan, maxRetries, outlines, orch, slidesOut, planVars, convVars >>

\* no task exists
NoTasks ==
    /\ outlines = << >>
    /\ task = << >>
    /\ outcome = << >>
    /\ calls = << >>
    /\ inflight = << >>
    /\ lastResp = << >>
    /\ failures = << >>
    /\ outOfOrder = FALSE

\* phase 1 and the converter have not run
NotPlanned ==
    /\ p1 = "idle"
    /\ p1Resp = NoResponse
    /\ p1Error = ""

NotConverted ==
    /\ rendered = FALSE
    /\ output = NoFile

\* no caller holds objects over several calls
NoObjects == [kind |-> "noobjects"]
NoSession ==
    /\ heap = NoObjects
    /\ history = << >>
    /\ loaded = { }

\* the renderer has not been called directly
NoRendererCall ==
    /\ args = NoArgs
    /\ result = NoResult

(***************************************************************************)
(* A direct call of phase2_generate_slide.                                 *)
(***************************************************************************)
InitSlide ==
    /\ entry = "generate_slide"
    /\ NoSession
    /\ paper \in PaperKinds
    /\ apiKey \in BOOLEAN
    /\ plan = NoPlan
    /\ maxRetries \in 0..MaxRetriesBound
    /\ outlines \in { << Outline(n, TypeAt(n)) >> : n \in 1..2 }
    /\ task = << Created >>
    /\ outcome = << Pending >>
    /\ calls = << 0 >>
    /\ inflight = << {} >>
    /\ lastResp = << NoResponse >>
    /\ failures = << 0 >>
    /\ outOfOrder = FALSE
    /\ orch = "idle"
    /\ slidesOut = << >>
    /\ maxSlides = DefaultMaxSlides
    /\ NotPlanned
    /\ conv = "idle"
    /\ NotConverted
    /\ NoRendererCall

NextSlide ==
    \/ \E i \in Tasks : TaskStart(i)
    \/ \E i \in Tasks : \E r \in SlideResponses : TaskRespond(i, r)

SpecSlide == InitSlide /\ [][NextSlide]_vars

(***************************************************************************)
(* phase2_generate_all_slides                                              *)
(***************************************************************************)
\* a plan of n outlines, numbered by position
PlanOfLen(n) ==
    [title |-> Txt(100), total_slides |-> Num(n),
     slides |-> [i \in 1..n |-> Outline(i, TypeAt(i))]]

\* gather without return_exceptions: it resumes at the first exception
GatherDoneAtFirstException(t) ==
    (\E i \in DOMAIN t : t[i].st = "raised") \/ (\A i \in DOMAIN t : IsDone(t[i]))

\* generator.py 210: await asyncio.gather(*tasks, return_exceptions=True)
\* resumes when every task has returned or raised
GatherDone(t) == \A i \in DOMAIN t : IsDone(t[i])

\* generator.py 210: the list gather gives, aligned with the tasks, an
\* exception standing where its task raised
GatherResults(oc) == [i \in DOMAIN oc |-> oc[i]]

\* the Python value of a result: the dict of a success, else the result
Value(x) == IF x.kind = "content" THEN x.content ELSE x

RECURSIVE SuccessfulSlidesPrepended(_, _)
\* a loop that inserts each success at the front of the list
SuccessfulSlidesPrepended(slides, k) ==
    IF k > Len(slides) THEN << >>
    ELSE IF slides[k].kind \in { "exception", "none" }
    THEN SuccessfulSlidesPrepended(slides, k + 1)
    ELSE SuccessfulSlidesPrepended(slides, k + 1) \o << Value(slides[k]) >>

RECURSIVE SuccessfulSlidesNoneOnly(_, _)
\* a loop that drops None and keeps every other result, exceptions included
SuccessfulSlidesNoneOnly(slides, k) ==
    IF k > Len(slides) THEN << >>
    ELSE IF slides[k].kind = "none" THEN SuccessfulSlidesNoneOnly(slides, k + 1)
    ELSE << Value(slides[k]) >> \o SuccessfulSlidesNoneOnly(slides, k + 1)

RECURSIVE SuccessfulSlides(_, _)
\* generator.py 213-220: the loop over slides[k..], appending the successes
SuccessfulSlides(slides, k) ==
    IF k > Len(slides) THEN << >>
    ELSE IF slides[k].kind = "exception" THEN SuccessfulSlides(slides, k + 1)
    ELSE IF slides[k].kind = "none" THEN SuccessfulSlides(slides, k + 1)
    ELSE << Value(slides[k]) >> \o SuccessfulSlides(slides, k + 1)

\* generator.py 192-207: the API key check and the creation of the tasks
AllStart ==
    /\ orch = "idle"
    /\ entry = "generate_all" \/ (entry = "convert" /\ conv = "generating")
    /\ IF ~apiKey
       THEN /\ orch' = "raised"
            /\ UNCHANGED << maxRetries, outlines, taskVars >>
       ELSE /\ orch' = "gathering"
            /\ outlines' = plan.slides
            /\ maxRetries' = DefaultMaxRetries
            /\ task' = [i \in 1..Len(plan.slides) |-> Created]
            /\ outcome' = [i \in 1..Len(plan.slides) |-> Pending]
            /\ calls' = [i \in 1..Len(plan.slides) |-> 0]
            /\ inflight' = [i \in 1..Len(plan.slides) |-> {}]
            /\ lastResp' = [i \in 1..Len(plan.slides) |-> NoResponse]
            /\ failures' = [i \in 1..Len(plan.slides) |-> 0]
            /\ UNCHANGED outOfOrder
    /\ conv' = IF entry = "convert" /\ ~apiKey THEN "raised" ELSE conv
    /\ UNCHANGED << callVars, sessionVars, result, plan, slidesOut, planVars, rendered, output >>

\* generator.py 210-224: gather resumes, the results are filtered and returned
AllCollect ==
    /\ orch = "gathering"
    /\ GatherDone(task)
    /\ slidesOut' = SuccessfulSlides(GatherResults(outcome), 1)
    /\ orch' = "returned"
    /\ conv' = IF entry = "convert" THEN "rendering" ELSE conv
    /\ UNCHANGED << callVars, sessionVars, result, plan, maxRetries, outlines, taskVars, planVars, rendered, output >>

InitAll ==
    /\ entry = "generate_all"
    /\ NoSession
    /\ paper \in { "nested", "sections_not_dict" }
    /\ apiKey \in BOOLEAN
    /\ plan \in { PlanOfLen(n) : n \in 0..MaxSlides }
    /\ maxRetries = DefaultMaxRetries
    /\ NoTasks
    /\ orch = "idle"
    /\ slidesOut = << >>
    /\ maxSlides = DefaultMaxSlides
    /\ NotPlanned
    /\ conv = "idle"
    /\ NotConverted
    /\ NoRendererCall

NextAll ==
    \/ AllStart
    \/ \E i \in Tasks : TaskStart(i)
    \/ \E i \in Tasks : \E r \in BatchResponses : TaskRespond(i, r)
    \/ AllCollect

SpecAll == InitAll /\ [][NextAll]_vars

(***************************************************************************)
(* phase1_plan_presentation                                                *)
(***************************************************************************)
\* the mapping d without the key n
Without(d, n) == [x \in DOMAIN d \ { n } |-> d[x]]

\* the JSON of one outline
OutlineData(i) ==
    [slide_number |-> Num(i), type |-> Tag(TypeAt(i)), purpose |-> Txt(200),
     key_points |-> Txt(500)]

\* the JSON of a plan of n outlines, every field at its limit
PlanData(n) ==
    [title |-> Txt(100), total_slides |-> Num(n),
     slides |-> List([i \in 1..n |-> OutlineData(i)])]

\* the plan d with the outline at position i replaced by o
WithOutline(d, i, o) == [d EXCEPT !.slides = List([d.slides.items EXCEPT ![i] = o])]

\* JSON objects the planning collaborator may answer with: plans that fit
\* PresentationPlan (one with a key that is no field, one whose outlines
\* share a slide_number), and plans that do not
PlanCandidates ==
    { PlanData(n) : n \in 0..MaxPlanned }
        \cup { [title |-> Txt(100), total_slides |-> Num(1),
                slides |-> List(<< OutlineData(1) >>), notes |-> Txt(1)],
               WithOutline(PlanData(MaxPlanned), MaxPlanned,
                           [OutlineData(MaxPlanned) EXCEPT !.slide_number = Num(1)]) }
        \cup { Without(PlanData(1), "title"),
               Without(PlanData(1), "slides"),
               [PlanData(1) EXCEPT !.title = Txt(101)],
               WithOutline(PlanData(MaxPlanned), 1, Without(OutlineData(1), "purpose")),
               WithOutline(PlanData(MaxPlanned), 1, [OutlineData(1) EXCEPT !.purpose = Txt(201)]),
               WithOutline(PlanData(MaxPlanned), MaxPlanned,
                           [OutlineData(MaxPlanned) EXCEPT !.key_points = Txt(501)]),
               WithOutline(PlanData(MaxPlanned), MaxPlanned,
                           [OutlineData(MaxPlanned) EXCEPT !.type = Tag("bullet_list")]) }

\* the planning collaborator: a fault, a text that is no JSON, a JSON object
PlanResponses ==
    { [kind |-> "fault", text |-> t] : t \in FaultTexts }
        \cup { [kind |-> "text"] }
        \cup { [kind |-> "json", data |-> c] : c \in PlanCandidates }

\* planning.py 166-179: create(...) faults, json.loads raises or
\* PresentationPlan(**plan_data) raises
PlanRaises(r) == r.kind # "json" \/ ModelErrors(PresentationPlan, r.data, 1) # << >>

\* the type of the exception raised at planning.py 166-179
PlanErrorType(r) ==
    CASE r.kind = "fault" -> "APIError"
      [] r.kind = "text" -> "JSONDecodeError"
      [] OTHER -> "ValidationError"

\* planning.py 179: the PresentationPlan built from validated data
PlanObject(d) ==
    [title |-> d.title, total_slides |-> d.total_slides,
     slides |-> DumpItems(SlideOutline, d.slides.items, 1)]

\* a handler that answers a planning failure with an empty plan
Phase1OutcomeWithFallback(key, p, r) ==
    IF ~key
    THEN [st |-> "raised", error |-> "ValueError", called |-> FALSE, plan |-> NoPlan]
    ELSE IF PreambleRaises(p)
    THEN [st |-> "raised", error |-> "AttributeError", called |-> FALSE, plan |-> NoPlan]
    ELSE IF PlanRaises(r)
    THEN [st |-> "returned", error |-> "", called |-> TRUE,
          plan |-> [title |-> Txt(0), total_slides |-> Num(0), slides |-> << >>]]
    ELSE [st |-> "returned", error |-> "", called |-> TRUE, plan |-> PlanObject(r.data)]

\* planning.py 29-192: the API key check, the extraction of the paper text,
\* the collaborator call, json.loads, PresentationPlan(**plan_data), and
\* "except Exception: ... raise"
Phase1Outcome(key, p, r) ==
    IF ~key
    THEN [st |-> "raised", error |-> "ValueError", called |-> FALSE, plan |-> NoPlan]
    ELSE IF PreambleRaises(p)
    THEN [st |-> "raised", error |-> "AttributeError", called |-> FALSE, plan |-> NoPlan]
    ELSE IF PlanRaises(r)
    THEN [st |-> "raised", error |-> PlanErrorType(r), called |-> TRUE, plan |-> NoPlan]
    ELSE [st |-> "returned", error |-> "", called |-> TRUE, plan |-> PlanObject(r.data)]

\* a converter that catches a planning error and renders the slides it has
ConvAfterPlanSwallowed(st) == IF st = "raised" THEN "rendering" ELSE "generating"

\* converter.py 40-43: the call of phase 1 is in no try block, so what it
\* raises leaves the converter; phase 2 is the next statement
ConvAfterPlan(st) == IF st = "raised" THEN "raised" ELSE "generating"

\* phase1_plan_presentation runs, the collaborator answering r; a
\* synchronous function, it runs from call to return in one step
Phase1(r) ==
    /\ p1 = "idle"
    /\ entry = "plan" \/ (entry = "convert" /\ conv = "planning")
    /\ LET out == Phase1Outcome(apiKey, paper, r)
       IN  /\ p1' = out.st
           /\ p1Error' = out.error
           /\ p1Resp' = IF out.called THEN r ELSE NoResponse
           /\ plan' = out.plan
           /\ conv' = IF entry = "convert" THEN ConvAfterPlan(out.st) ELSE conv
    /\ UNCHANGED << callVars, sessionVars, result, maxRetries, outlines, taskVars, orch, slidesOut, rendered, output >>

(***************************************************************************)
(* A direct call of phase1_plan_presentation.                              *)
(***************************************************************************)
InitPlan ==
    /\ entry = "plan"
    /\ NoSession
    /\ paper \in PaperKinds
    /\ apiKey \in BOOLEAN
    /\ maxSlides \in 1..MaxPlanned \cup { DefaultMaxSlides }
    /\ plan = NoPlan
    /\ maxRetries = DefaultMaxRetries
    /\ NoTasks
    /\ orch = "idle"
    /\ slidesOut = << >>
    /\ NotPlanned
    /\ conv = "idle"
    /\ NotConverted
    /\ NoRendererCall

NextPlan == \E r \in PlanResponses : Phase1(r)

SpecPlan == InitPlan /\ [][NextPlan]_vars

(***************************************************************************)
(* The renderer: schemas/content.py, slide_renderer/renderer.py and         *)
(* paper_to_presentation/renderer.py.                                      *)
(***************************************************************************)
\* content.py 28-32: the renderer's ImageItem
ContentImageItem == << StrUnbounded("url"), StrF("alt", 100) >>

\* content.py 230-245: SLIDE_CONTENT_MODELS and the classes it names; their
\* ListItem, MetricValue and MetricWithDescription have the fields and the
\* limits of those of models.py
SLIDE_CONTENT_MODELS(tag) ==
    CASE tag = "title_slide" ->
            << StrF("title", 80), StrF("subtitle", 120) >>
      [] tag = "section_title" ->
            << StrF("title", 60) >>
      [] tag = "single_content_with_image" ->
            << StrF("title", 60), StrF("description", 300),
               StrUnbounded("image_url"), StrF("image_alt", 100) >>
      [] tag = "highlight" ->
            << StrF("title", 40), StrF("content", 200) >>
      [] tag = "two_column_list" ->
            << StrF("title", 40), ListF("items", ListItem, 2, 4) >>
      [] tag = "vertical_list" ->
            << StrF("title", 60), ListF("items", ListItem, 3, 6) >>
      [] tag = "horizontal_3_column_list" ->
            << StrF("title", 60), ListF("items", ListItem, 3, 3) >>
      [] tag = "two_columns_with_grid" ->
            << StrF("title", 40), ListF("items", ListItem, 4, 4) >>
      [] tag = "horizontal_4_column_list" ->
            << StrF("title", 60), ListF("items", ListItem, 4, 4) >>
      [] tag = "image_with_description_2" ->
            << StrF("title", 60), ListF("images", ContentImageItem, 2, 2),
               ListF("items", ListItem, 2, 2) >>
      [] tag = "image_with_description_3" ->
            << StrF("title", 60), ListF("images", ContentImageItem, 3, 3),
               ListF("items", ListItem, 3, 3) >>
      [] tag = "three_column_metrics" ->
            << StrF("title", 60), ListF("metrics", MetricWithDescription, 3, 3) >>
      [] tag = "metrics_grid" ->
            << StrF("title", 40), StrF("description", 200),
               ListF("metrics", MetricValue, 4, 4) >>
      [] tag = "quote" ->
            << StrF("quote", 200), StrF("author", 80) >>

\* the templates directory has one <tag>.jinja2 file per slide type
TemplateExists(tag) == tag \in SlideType

\* the result of a call: a value returned, or an exception raised
Ok(v) == [ok |-> TRUE, value |-> v, error |-> [type |-> "", cause |-> "", detail |-> << >>]]
Err(type, cause, detail) ==
    [ok |-> FALSE, value |-> << >>, error |-> [type |-> type, cause |-> cause, detail |-> detail]]

\* content.py 230-245: the keys of SLIDE_CONTENT_MODELS
ContentModelKeys ==
    { "title_slide", "section_title", "single_content_with_image", "highlight",
      "two_column_list", "vertical_list", "horizontal_3_column_list",
      "two_columns_with_grid", "horizontal_4_column_list", "image_with_description_2",
      "image_with_description_3", "three_column_metrics", "metrics_grid", "quote" }

\* a registry lookup that answers an unknown type with the first model
get_content_model_lenient(slide_type) ==
    IF slide_type \notin ContentModelKeys THEN Ok(SLIDE_CONTENT_MODELS("title_slide"))
    ELSE Ok(SLIDE_CONTENT_MODELS(slide_type))

\* content.py 251-270: get_content_model
get_content_model(slide_type) ==
    IF slide_type \notin ContentModelKeys
    THEN Err("ValueError", "Invalid slide type", << slide_type >>)
    ELSE Ok(SLIDE_CONTENT_MODELS(slide_type))

\* slide_renderer/renderer.py 87-109: validate_content; a ValidationError is
\* raised again as ValueError, the ValueError of the lookup passes through
validate_content(slide_type, content) ==
    LET model_class == get_content_model(slide_type)
    IN  IF ~model_class.ok THEN model_class
        ELSE LET errs == ModelErrors(model_class.value, content, 1)
             IN  IF errs # << >> THEN Err("ValueError", "Validation error", errs)
                 ELSE Ok(ModelDump(model_class.value, content))

\* slide_renderer/renderer.py 64-85: _get_template
get_template(slide_type) ==
    IF ~TemplateExists(slide_type)
    THEN Err("ValueError", "Template not found", << slide_type >>)
    ELSE Ok(slide_type)

\* a render that looks the template up before it validates
render_template_first(slide_type, content, validate) ==
    LET template == get_template(slide_type)
        validated == validate_content(slide_type, content)
    IN  IF ~template.ok THEN template
        ELSE IF validate /\ ~validated.ok THEN validated
        ELSE Ok([kind |-> "slide", type |-> template.value,
                 content |-> IF validate THEN validated.value ELSE content])

\* slide_renderer/renderer.py 111-144: render; the fragment is the template
\* of the type applied to the content, which is the dump of the validated
\* model when validate is true and the caller's mapping otherwise
render(slide_type, content, validate) ==
    LET validated == validate_content(slide_type, content)
        template == get_template(slide_type)
    IN  IF validate /\ ~validated.ok THEN validated
        ELSE IF ~template.ok THEN template
        ELSE Ok([kind |-> "slide", type |-> template.value,
                 content |-> IF validate THEN validated.value ELSE content])

\* converter.py 30-34, utils.py 39-64: the figure_id -> absolute_url map; the
\* papers of the model carry no figure with both keys, so the map is empty
FigureMap(p) == [k |-> "dict", map |-> << >>]

\* utils.py 59-60: "for fig in section_figures" over a value that is no
\* iterable raises TypeError
FigureMapRaises(p) == p = "figures_not_iterable"

\* paper_to_presentation/renderer.py 36-45: each slide split into its type
\* (the Enum's value) and the rest, its content
SlidesData(slides) ==
    [i \in 1..Len(slides) |->
        [type |-> slides[i].type.tok, content |-> Without(slides[i], "type")]]

\* the local slide_type of render_presentation: not yet assigned, None, or
\* a string
Unbound == [k |-> "unbound"]
PyNone == [k |-> "none"]
PyStr(s) == [k |-> "pystr", s |-> s]

\* an entry of a batch is a mapping (a record of its keys) or some other
\* value
IsMapping(e) == "k" \notin DOMAIN e

\* dict.get("type"): None when the key is absent
GetType(e) == IF "type" \in DOMAIN e THEN PyStr(e.type) ELSE PyNone

\* dict.get("content", {})
GetContent(e) == IF "content" \in DOMAIN e THEN e.content ELSE << >>

\* "not slide_type"
Falsy(v) == v.k = "none" \/ (v.k = "pystr" /\ v.s = "")

\* str(slide_type) in an f-string
Shown(v) == IF v.k = "none" THEN "None" ELSE v.s

\* the result r of a loop that entered n iterations
Entered(r, n) == [ok |-> r.ok, value |-> r.value, error |-> r.error, entered |-> n]

\* slide_renderer/renderer.py 183: raise ValueError(f"Error rendering slide
\* {i} ({slide_type}): {e}"); reading a slide_type that was never assigned
\* raises UnboundLocalError instead
WrappedError(i, slide_type, cause) ==
    IF slide_type = Unbound
    THEN Err("UnboundLocalError", "slide_type", << >>)
    ELSE Err("ValueError", "Error rendering slide", << ToString(i), Shown(slide_type), cause >>)

RECURSIVE render_loop_skipping(_, _, _, _, _)
\* a loop that leaves out an entry that fails and goes on
render_loop_skipping(slides, k, slide_type, rendered_slides, validate) ==
    IF k > Len(slides) THEN Entered(Ok(rendered_slides), Len(slides))
    ELSE IF ~IsMapping(slides[k])
    THEN render_loop_skipping(slides, k + 1, slide_type, rendered_slides, validate)
    ELSE LET t == GetType(slides[k])
             r == render(t.s, GetContent(slides[k]), validate)
         IN  IF Falsy(t) \/ ~r.ok
             THEN render_loop_skipping(slides, k + 1, t, rendered_slides, validate)
             ELSE render_loop_skipping(slides, k + 1, t,
                                       Append(rendered_slides, r.value), validate)

RECURSIVE render_loop(_, _, _, _, _)
\* slide_renderer/renderer.py 171-183: the loop from entry k (index k - 1)
\* on, slide_type being the local as the iterations before left it
render_loop(slides, k, slide_type, rendered_slides, validate) ==
    IF k > Len(slides) THEN Entered(Ok(rendered_slides), Len(slides))
    ELSE IF ~IsMapping(slides[k])
    THEN Entered(WrappedError(k - 1, slide_type, "AttributeError"), k)
    ELSE LET t == GetType(slides[k])
             r == render(t.s, GetContent(slides[k]), validate)
         IN  IF Falsy(t)
             THEN Entered(WrappedError(k - 1, t, "Missing 'type' field"), k)
             ELSE IF ~r.ok
             THEN Entered(WrappedError(k - 1, t, r.error.cause), k)
             ELSE render_loop(slides, k + 1, t, Append(rendered_slides, r.value), validate)

Separator == [kind |-> "separator"]
Frontmatter == [kind |-> "frontmatter"]

RECURSIVE JoinTrailing(_, _)
\* a join that ends every fragment with the separator
JoinTrailing(rendered_slides, k) ==
    IF k > Len(rendered_slides) THEN << >>
    ELSE << rendered_slides[k], Separator >> \o JoinTrailing(rendered_slides, k + 1)

RECURSIVE Join(_, _)
\* slide_renderer/renderer.py 186: "\n---\n\n".join(rendered_slides[k..])
Join(rendered_slides, k) ==
    IF k > Len(rendered_slides) THEN << >>
    ELSE IF k = Len(rendered_slides) THEN << rendered_slides[k] >>
    ELSE << rendered_slides[k], Separator >> \o Join(rendered_slides, k + 1)

\* slide_renderer/renderer.py 146-198: render_presentation
render_presentation(slides, validate, include_frontmatter) ==
    LET r == render_loop(slides, 1, Unbound, << >>, validate)
    IN  IF ~r.ok THEN r
        ELSE Entered(Ok((IF include_frontmatter THEN << Frontmatter >> ELSE << >>)
                            \o Join(r.value, 1)),
                     r.entered)

(***************************************************************************)
(* render_slides_to_markdown and the figure-ID substitution.               *)
(***************************************************************************)
\* figure_map: None (the default) or a dict from figure ids to URLs
NoFigureMap == [k |-> "none"]
FigureDict(f) == [k |-> "dict", map |-> f]

\* paper_to_presentation/renderer.py 30: "if figure_map:"
NonEmptyMap(m) == m.k = "dict" /\ DOMAIN m.map # { }

\* the figure ids of the model are of the form "S3.F1"
IdLen == 5
\* utils.py 166: len("(see figure)")
SeeFigureLen == 12

\* a string of n characters in which the figure id occurs m times; it is
\* the id itself when n = IdLen
Mention(n, id, m) == [k |-> "str", len |-> n, id |-> id, times |-> m]

IsStr(v) == "k" \in DOMAIN v /\ v.k = "str"
IsList(v) == "k" \in DOMAIN v /\ v.k = "list"
IsId(v) == IsStr(v) /\ "id" \in DOMAIN v /\ v.len = IdLen

\* utils.py 127-132 (136-141, 146-151): an image URL that is a key of the
\* map becomes its URL, another string that starts with "S" and holds a "."
\* (of the model's strings: another figure id) becomes ""
ConvertUrl(v, fm) ==
    IF ~IsId(v) THEN v
    ELSE IF v.id \in DOMAIN fm THEN fm[v.id]
    ELSE Txt(0)

\* utils.py 160-167 (170-178): every occurrence of an id of the map in a
\* text becomes "(see figure)"; the second replace finds nothing, the id
\* being gone
ReplaceIds(v, fm) ==
    IF IsStr(v) /\ "id" \in DOMAIN v /\ v.id \in DOMAIN fm
    THEN Txt(v.len + v.times * (SeeFigureLen - IdLen))
    ELSE v

\* utils.py 144-157: one entry of "images"
ConvertImage(img, fm) ==
    IF "k" \in DOMAIN img THEN ConvertUrl(img, fm)
    ELSE [n \in DOMAIN img |-> IF n = "url" /\ IsStr(img[n]) THEN ConvertUrl(img[n], fm) ELSE img[n]]

\* utils.py 170-178: one entry of "items"
ConvertItem(item, fm) ==
    IF "k" \in DOMAIN item THEN item
    ELSE [n \in DOMAIN item |->
            IF n \in { "description", "title" } THEN ReplaceIds(item[n], fm) ELSE item[n]]

\* utils.py 124-178: one slide of the copy
ConvertSlide(slide, fm) ==
    [n \in DOMAIN slide |->
        CASE n \in { "image_url", "image" } -> ConvertUrl(slide[n], fm)
          [] n = "images" /\ IsList(slide[n]) ->
                List([i \in 1..Len(slide[n].items) |-> ConvertImage(slide[n].items[i], fm)])
          [] n \in { "description", "title", "content", "subtitle" } -> ReplaceIds(slide[n], fm)
          [] n = "items" /\ IsList(slide[n]) ->
                List([i \in 1..Len(slide[n].items) |-> ConvertItem(slide[n].items[i], fm)])
          [] OTHER -> slide[n]]

\* utils.py 110-180: convert_figure_ids_to_urls works on a deep copy
convert_figure_ids_to_urls(slides, figure_map) ==
    [i \in 1..Len(slides) |-> ConvertSlide(slides[i], figure_map.map)]

\* paper_to_presentation/renderer.py 37-38: the slides the loop has popped
\* 'type' from: those before the first one without the key
PoppedUpTo(slides) ==
    IF \A i \in 1..Len(slides) : "type" \in DOMAIN slides[i] THEN Len(slides)
    ELSE (CHOOSE i \in 1..Len(slides) :
             /\ "type" \notin DOMAIN slides[i]
             /\ \A j \in 1..(i - 1) : "type" \in DOMAIN slides[j]) - 1

\* the list after the loop: 'type' gone from the slides the loop reached
AfterPop(slides) ==
    [i \in 1..Len(slides) |->
        IF i <= PoppedUpTo(slides) THEN Without(slides[i], "type") ELSE slides[i]]

\* paper_to_presentation/renderer.py 30-38: the caller's list after the
\* call; with a figure map that is None or empty the loop pops from the
\* caller's own dicts, otherwise from the copy
SlidesAfterCall(slides, figure_map) ==
    IF NonEmptyMap(figure_map) THEN slides ELSE AfterPop(slides)

\* paper_to_presentation/renderer.py 14-68: render_slides_to_markdown; res
\* is what it returns or raises, wrote whether the file was written, after
\* the caller's list when the call is over
render_slides_to_markdown(slides, figure_map) ==
    LET converted == IF NonEmptyMap(figure_map)
                     THEN convert_figure_ids_to_urls(slides, figure_map)
                     ELSE slides
        after == SlidesAfterCall(slides, figure_map)
    IN  IF PoppedUpTo(converted) < Len(converted)
        THEN [res |-> Entered(Err("KeyError", "type", << >>), 0), wrote |-> FALSE,
              after |-> after]
        ELSE LET markdown == render_presentation(SlidesData(converted), TRUE, TRUE)
             IN  [res |-> markdown, wrote |-> markdown.ok, after |-> after]

(***************************************************************************)
(* convert_paper_to_presentation                                           *)
(***************************************************************************)
\* converter.py 30-37: the figure map is built
ConvStart ==
    /\ entry = "convert"
    /\ conv = "start"
    /\ conv' = IF FigureMapRaises(paper) THEN "raised" ELSE "planning"
    /\ UNCHANGED << callVars, sessionVars, result, plan, maxRetries, outlines, taskVars, orch, slidesOut,
                    planVars, rendered, output >>

\* converter.py 46-48, paper_to_presentation/renderer.py 14-68:
\* render_slides_to_markdown(slides, output_file, figure_map) renders the
\* slides and writes the file, or raises and writes nothing
Render ==
    /\ entry \in { "convert", "render_slides_to_markdown" }
    /\ conv = "rendering"
    /\ rendered' = TRUE
    /\ \E call \in { render_slides_to_markdown(slidesOut, FigureMap(paper)) } :
           /\ slidesOut' = call.after
           /\ IF call.wrote
              THEN /\ output' = [kind |-> "file", markdown |-> call.res.value]
                   /\ conv' = "returned"
              ELSE /\ conv' = "raised"
                   /\ UNCHANGED output
    /\ UNCHANGED << callVars, sessionVars, result, plan, maxRetries, outlines, taskVars, orch, planVars >>

InitConvert ==
    /\ entry = "convert"
    /\ NoSession
    /\ paper \in { "nested", "sections_not_dict", "figures_not_iterable" }
    /\ apiKey \in BOOLEAN
    /\ maxSlides \in { 1, DefaultMaxSlides }
    /\ plan = NoPlan
    /\ maxRetries = DefaultMaxRetries
    /\ NoTasks
    /\ orch = "idle"
    /\ slidesOut = << >>
    /\ NotPlanned
    /\ conv = "start"
    /\ NotConverted
    /\ NoRendererCall

NextConvert ==
    \/ ConvStart
    \/ \E r \in PlanResponses : Phase1(r)
    \/ AllStart
    \/ \E i \in Tasks : TaskStart(i)
    \/ \E i \in Tasks : \E r \in BatchResponses : TaskRespond(i, r)
    \/ AllCollect
    \/ Render

SpecConvert == InitConvert /\ [][NextConvert]_vars

(***************************************************************************)
(* Direct calls of the renderer: render_presentation, save_presentation    *)
(* and render_slides_to_markdown.                                          *)
(***************************************************************************)
\* the sequences over S of length at most n
SeqsUpTo(S, n) == UNION { [1..m -> S] : m \in 0..n }

\* entries a caller may pass: two that render, one whose content is too
\* long, one of an unknown type, one without 'type', one without 'content',
\* one that is no mapping
BatchEntries ==
    { [type |-> "title_slide", content |-> [title |-> Txt(80), subtitle |-> Txt(120)]],
      [type |-> "quote", content |-> [quote |-> Txt(200), author |-> Txt(80)]],
      [type |-> "title_slide", content |-> [title |-> Txt(81), subtitle |-> Txt(120)]],
      [type |-> "bullet_list", content |-> [title |-> Txt(1)]],
      [content |-> [title |-> Txt(60)]],
      [type |-> "section_title"],
      Txt(4) }

\* slide dicts a caller of render_slides_to_markdown may pass
SlideDicts ==
    { [type |-> Tag("title_slide"), title |-> Txt(80), subtitle |-> Txt(120)],
      [type |-> Tag("quote"), quote |-> Txt(200), author |-> Txt(80)],
      [type |-> Tag("title_slide"), title |-> Txt(81), subtitle |-> Txt(120)],
      [type |-> Tag("bullet_list"), title |-> Txt(1)] }

pipelineVars == << plan, maxRetries, outlines, taskVars, orch, slidesOut, planVars >>

\* slide_renderer/renderer.py 146-198: a call of render_presentation; a
\* synchronous method, it runs from call to return in one step
RenderPresentationCall ==
    /\ entry = "render_presentation"
    /\ result = NoResult
    /\ result' = render_presentation(args.slides, args.validate, args.include_frontmatter)
    /\ UNCHANGED << callVars, sessionVars, pipelineVars, convVars >>

\* slide_renderer/renderer.py 230-249: save_presentation renders, then
\* writes the file, and returns None
SavePresentation ==
    /\ entry = "save_presentation"
    /\ result = NoResult
    /\ \E presentation \in { render_presentation(args.slides, args.validate, TRUE) } :
           IF presentation.ok
           THEN /\ output' = [kind |-> "file", markdown |-> presentation.value]
                /\ result' = Entered(Ok(<< >>), presentation.entered)
           ELSE /\ result' = presentation
                /\ UNCHANGED output
    /\ UNCHANGED << callVars, sessionVars, pipelineVars, conv, rendered >>

InitRender ==
    /\ entry \in { "render_presentation", "save_presentation", "render_slides_to_markdown" }
    /\ NoSession
    /\ paper = "nested"
    /\ apiKey = TRUE
    /\ maxSlides = DefaultMaxSlides
    /\ plan = NoPlan
    /\ maxRetries = DefaultMaxRetries
    /\ NoTasks
    /\ orch = "idle"
    /\ NotPlanned
    /\ NotConverted
    /\ result = NoResult
    /\ \/ /\ entry = "render_presentation"
          /\ args \in [slides : SeqsUpTo(BatchEntries, MaxBatch), validate : BOOLEAN,
                       include_frontmatter : BOOLEAN]
          /\ conv = "idle"
          /\ slidesOut = << >>
       \/ /\ entry = "save_presentation"
          /\ args \in [slides : SeqsUpTo(BatchEntries, MaxBatch), validate : BOOLEAN,
                       include_frontmatter : { TRUE }]
          /\ conv = "idle"
          /\ slidesOut = << >>
       \/ /\ entry = "render_slides_to_markdown"
          /\ args \in [slides : SeqsUpTo(SlideDicts, MaxBatch)]
          /\ conv = "rendering"
          /\ slidesOut = args.slides

NextRender ==
    \/ RenderPresentationCall
    \/ SavePresentation
    \/ Render

SpecRender == InitRender /\ [][NextRender]_vars

(***************************************************************************)
(* Content mappings built from a model: every field at its limit, and the  *)
(* mappings one change away from that.                                     *)
(***************************************************************************)
\* the field names of a model, and the field of a name
Names(schema) == { schema[k].name : k \in 1..Len(schema) }
FieldOf(schema, n) == CHOOSE f \in { schema[k] : k \in 1..Len(schema) } : f.name = n
Fields(schema) == { schema[k] : k \in 1..Len(schema) }

\* a string for the field f: of max_length characters, of 501 where the
\* field has no max_length
AtLimit(f) == Txt(IF f.bounded THEN f.max ELSE 501)

\* an item record with every field at its limit
BaseItem(item) == [n \in Names(item) |-> AtLimit(FieldOf(item, n))]

\* n such items
Items(item, n) == List([i \in 1..n |-> BaseItem(item)])

\* a content mapping with every field present, every string at its limit
\* and every list at its smallest length
BaseContent(schema) ==
    [n \in Names(schema) |->
        LET f == FieldOf(schema, n)
        IN  IF f.kind = "list" THEN Items(f.item, f.min) ELSE AtLimit(f)]

\* the list value q with the field g of its last item changed to v
WithLastItem(q, g, v) ==
    List([q.items EXCEPT ![Len(q.items)] = [q.items[Len(q.items)] EXCEPT ![g] = v]])

\* the list value q with the field g of its first item removed
WithoutInFirstItem(q, g) == List([q.items EXCEPT ![1] = Without(q.items[1], g)])

\* the contents tried for a model: the base content and the contents that
\* differ from it in one place -- a string one character over its limit, a
\* field left out, a list one item under its minimum, at its maximum or one
\* item over it, an item string one character over its limit, an item field
\* left out
Variants(schema) ==
    LET base == BaseContent(schema)
        strs == { f \in Fields(schema) : f.kind = "str" /\ f.bounded }
        lists == { f \in Fields(schema) : f.kind = "list" }
    IN  { base }
          \cup { [base EXCEPT ![f.name] = Txt(f.max + 1)] : f \in strs }
          \cup { Without(base, f.name) : f \in Fields(schema) }
          \cup UNION { { [base EXCEPT ![f.name] = Items(f.item, n)] :
                            n \in { f.min - 1, f.max, f.max + 1 } } : f \in lists }
          \cup UNION { { [base EXCEPT ![f.name] = WithLastItem(base[f.name], g.name, Txt(g.max + 1))] :
                            g \in { h \in Fields(f.item) : h.bounded } } : f \in lists }
          \cup UNION { { [base EXCEPT ![f.name] = WithoutInFirstItem(base[f.name], g.name)] :
                            g \in Fields(f.item) } : f \in lists }

(***************************************************************************)
(* A direct call of render.                                                *)
(***************************************************************************)
\* content mappings a caller may pass: of a title slide (at the limits, over
\* them, with a key that is no field), of a quote, of a section title, empty,
\* of a two-column list with a key that is no field in the mapping and in an
\* item
RenderContents ==
    { [title |-> Txt(80), subtitle |-> Txt(120)],
      [title |-> Txt(40), notes |-> Txt(1),
       items |-> List(<< [title |-> Txt(100), description |-> Txt(300), icon |-> Txt(1)],
                         [title |-> Txt(100), description |-> Txt(300)] >>)],
      [title |-> Txt(81), subtitle |-> Txt(120)],
      [title |-> Txt(80), subtitle |-> Txt(120), notes |-> Txt(1)],
      [quote |-> Txt(200), author |-> Txt(80)],
      [title |-> Txt(60)],
      << >> }

\* slide_renderer/renderer.py 111-144: a call of render
RenderCall ==
    /\ entry = "render"
    /\ result = NoResult
    /\ result' = render(args.slide_type, args.content, args.validate)
    /\ UNCHANGED << callVars, sessionVars, pipelineVars, convVars >>

InitRenderOne ==
    /\ entry = "render"
    /\ NoSession
    /\ paper = "nested"
    /\ apiKey = TRUE
    /\ maxSlides = DefaultMaxSlides
    /\ plan = NoPlan
    /\ maxRetries = DefaultMaxRetries
    /\ NoTasks
    /\ orch = "idle"
    /\ slidesOut = << >>
    /\ NotPlanned
    /\ conv = "idle"
    /\ NotConverted
    /\ args \in [slide_type : ContentModelKeys \cup { "bullet_list" },
                 content : RenderContents, validate : BOOLEAN]
                  \cup { [slide_type |-> t, content |-> BaseContent(SLIDE_CONTENT_MODELS(t)),
                          validate |-> v] : t \in ContentModelKeys, v \in BOOLEAN }
    /\ result = NoResult

NextRenderOne == RenderCall

SpecRenderOne == InitRenderOne /\ [][NextRenderOne]_vars

(***************************************************************************)
(* A caller that keeps one SlideRenderer and its content objects over      *)
(* several calls of render and render_presentation.                        *)
(***************************************************************************)
\* the objects of the caller: two content mappings (c1 valid for a title
\* slide, with a key that is no field; c2 with a title that is too long) and
\* a batch, which in the second heap holds an entry that fails
SessionHeaps ==
    { [c1 |-> [title |-> Txt(80), subtitle |-> Txt(120), notes |-> Txt(1)],
       c2 |-> [title |-> Txt(81), subtitle |-> Txt(120)],
       batch |-> << [type |-> "title_slide",
                     content |-> [title |-> Txt(80), subtitle |-> Txt(120), notes |-> Txt(1)]],
                    [type |-> "quote", content |-> [quote |-> Txt(200), author |-> Txt(80)]] >>],
      [c1 |-> [title |-> Txt(60)],
       c2 |-> [quote |-> Txt(200), author |-> Txt(80)],
       batch |-> << [type |-> "section_title", content |-> [title |-> Txt(60)]],
                    [type |-> "bullet_list", content |-> [title |-> Txt(1)]] >>] }

SessionTypes == { "title_slide", "section_title", "bullet_list" }

\* a render that writes the dump of the validated model into the caller's
\* mapping
ContentAfterRenderInPlace(slide_type, content, validate) ==
    LET validated == validate_content(slide_type, content)
    IN  IF validate /\ validated.ok THEN validated.value ELSE content

\* slide_renderer/renderer.py 134-142: the caller's mapping after render;
\* 'content = validated.model_dump()' binds the local name to a new dict and
\* template.render(**content) unpacks it, the caller's dict is not written
ContentAfterRender(slide_type, content, validate) == content

\* slide_renderer/renderer.py 171-181: the caller's batch after
\* render_presentation; the loop reads the entries with get
BatchAfterRender(slides, validate) == slides

\* slide_renderer/renderer.py 85: env.get_template keeps the template it
\* loaded in the cache of the Environment
LoadedAfterRender(ld, slide_type, content, validate) ==
    IF render(slide_type, content, validate).ok THEN ld \cup { slide_type } ELSE ld

RECURSIVE LoadedAfterBatch(_, _, _, _)
\* the cache after the loop has entered the entries k..n of the batch
LoadedAfterBatch(ld, slides, k, validate) ==
    IF k > Len(slides) \/ ~IsMapping(slides[k]) \/ Falsy(GetType(slides[k])) THEN ld
    ELSE \* the loop ends at the first entry that fails
         IF ~render(GetType(slides[k]).s, GetContent(slides[k]), validate).ok THEN ld
         ELSE LoadedAfterBatch(ld \cup { GetType(slides[k]).s }, slides, k + 1, validate)

\* a call of render on one of the caller's mappings
SessionRender ==
    /\ entry = "session"
    /\ Len(history) < MaxCalls
    /\ \E slide_type \in SessionTypes, obj \in { "c1", "c2" }, validate \in BOOLEAN :
          /\ history' = Append(history,
                               [op |-> "render", slide_type |-> slide_type, obj |-> obj,
                                validate |-> validate, given |-> heap[obj],
                                result |-> render(slide_type, heap[obj], validate)])
          /\ heap' = [heap EXCEPT ![obj] = ContentAfterRender(slide_type, heap[obj], validate)]
          /\ loaded' = LoadedAfterRender(loaded, slide_type, heap[obj], validate)
    /\ UNCHANGED << callVars, result, pipelineVars, convVars >>

\* a call of render_presentation on the caller's batch
SessionRenderPresentation ==
    /\ entry = "session"
    /\ Len(history) < MaxCalls
    /\ \E validate \in BOOLEAN :
          /\ history' = Append(history,
                               [op |-> "render_presentation", slide_type |-> "", obj |-> "batch",
                                validate |-> validate, given |-> heap.batch,
                                result |-> render_presentation(heap.batch, validate, TRUE)])
          /\ heap' = [heap EXCEPT !.batch = BatchAfterRender(heap.batch, validate)]
          /\ loaded' = LoadedAfterBatch(loaded, heap.batch, 1, validate)
    /\ UNCHANGED << callVars, result, pipelineVars, convVars >>

InitSession ==
    /\ entry = "session"
    /\ paper = "nested"
    /\ apiKey = TRUE
    /\ maxSlides = DefaultMaxSlides
    /\ plan = NoPlan
    /\ maxRetries = DefaultMaxRetries
    /\ NoTasks
    /\ orch = "idle"
    /\ slidesOut = << >>
    /\ NotPlanned
    /\ conv = "idle"
    /\ NotConverted
    /\ NoRendererCall
    /\ heap \in SessionHeaps
    /\ history = << >>
    /\ loaded = { }

NextSession ==
    \/ SessionRender
    \/ SessionRenderPresentation

SpecSession == InitSession /\ [][NextSession]_vars

(***************************************************************************)
(* A caller that keeps its list of generated slides and calls              *)
(* render_slides_to_markdown on it, once or again.                         *)
(***************************************************************************)
\* the content model of the generation module without its 'type' field
GenFields(tag) == Tail(SLIDE_TYPE_MODELS(tag))

\* slide_content.model_dump() of phase 2 for the tag: the content given,
\* with the tag as its 'type'
Generated(tag, content) ==
    [n \in DOMAIN content \cup { "type" } |-> IF n = "type" THEN Tag(tag) ELSE content[n]]

\* the slides phase 2 may have returned: for every tag the content with
\* every field at the limit of the generation model; slides whose texts or
\* image URLs mention figure ids ("S3.F1" is a figure of the paper, "S9.F9"
\* is none); a short title slide
GeneratedSlides ==
    { Generated(t, BaseContent(GenFields(t))) : t \in SlideTypeModelKeys }
        \cup { Generated("title_slide", [title |-> Txt(10), subtitle |-> Txt(5)]),
               Generated("title_slide", [title |-> Mention(80, "S3.F1", 1), subtitle |-> Txt(5)]),
               Generated("section_title", [title |-> Mention(30, "S3.F1", 2)]),
               Generated("single_content_with_image",
                         [title |-> Txt(60), description |-> Txt(300),
                          image_url |-> Mention(IdLen, "S3.F1", 1), image_alt |-> Txt(100)]),
               Generated("single_content_with_image",
                         [title |-> Txt(60), description |-> Txt(300),
                          image_url |-> Mention(IdLen, "S9.F9", 1), image_alt |-> Txt(100)]) }

\* the figure maps a caller passes: none, an empty one, one with a figure
FigureMaps ==
    { NoFigureMap, FigureDict(<< >>), FigureDict([id \in { "S3.F1" } |-> Txt(90)]) }

\* paper_to_presentation/renderer.py 14-68: a call of
\* render_slides_to_markdown on the caller's list
MarkdownCall ==
    /\ entry = "markdown"
    /\ Len(history) < MaxCalls
    /\ \E call \in { render_slides_to_markdown(heap.slides, args.figure_map) } :
          /\ history' = Append(history, [given |-> heap.slides, result |-> call.res])
          /\ heap' = [slides |-> call.after]
          /\ output' = IF call.wrote THEN [kind |-> "file", markdown |-> call.res.value]
                       ELSE output
          /\ rendered' = TRUE
    /\ UNCHANGED << callVars, result, pipelineVars, conv, loaded >>

InitMarkdown ==
    /\ entry = "markdown"
    /\ paper = "nested"
    /\ apiKey = TRUE
    /\ maxSlides = DefaultMaxSlides
    /\ plan = NoPlan
    /\ maxRetries = DefaultMaxRetries
    /\ NoTasks
    /\ orch = "idle"
    /\ slidesOut = << >>
    /\ NotPlanned
    /\ conv = "idle"
    /\ NotConverted
    /\ result = NoResult
    /\ args \in [figure_map : FigureMaps]
    /\ heap \in [slides : SeqsUpTo(GeneratedSlides, MaxDeck)]
    /\ history = << >>
    /\ loaded = { }

NextMarkdown == MarkdownCall

SpecMarkdown == InitMarkdown /\ [][NextMarkdown]_vars

(***************************************************************************)
(* Direct calls of get_content_model and validate_content.                 *)
(***************************************************************************)
\* slide_renderer/types.py 78-587: the values of the members of SlideTypeEnum
SlideTypeEnum ==
    { "title_slide", "section_title", "single_content_with_image", "highlight",
      "two_column_list", "two_columns_with_grid", "vertical_list",
      "horizontal_3_column_list", "horizontal_4_column_list",
      "image_with_description_2", "image_with_description_3",
      "three_column_metrics", "metrics_grid", "quote" }

\* slide_renderer/llm_output.py 22: [t.value for t in SlideTypeEnum]
SLIDE_TYPE_VALUES == SlideTypeEnum

\* a Literal that lacks the last value
SlideTypeLiteralWithoutQuote == SlideTypeEnum \ { "quote" }

\* slide_renderer/llm_output.py 25-40: SlideTypeLiteral
SlideTypeLiteral ==
    { "title_slide", "section_title", "single_content_with_image", "highlight",
      "two_column_list", "two_columns_with_grid", "vertical_list",
      "horizontal_3_column_list", "horizontal_4_column_list",
      "image_with_description_2", "image_with_description_3",
      "three_column_metrics", "metrics_grid", "quote" }

\* slide_renderer/llm_output.py 277-287: validate_slide_type
validate_slide_type(slide_type_value) == slide_type_value \in SLIDE_TYPE_VALUES

\* no item_count
NoItemCount == [min |-> 0, max |-> 0]

\* slide_renderer/types.py 93-586: the content_requirements of the members
\* of SlideTypeEnum: required_fields, optional_fields, item_count and the
\* max_<field>_length entries (as limits); has_images, image_count,
\* description and the format notes are left out
ContentRequirements(tag) ==
    CASE tag = "title_slide" ->
            [required_fields |-> << "title", "subtitle" >>, optional_fields |-> << >>,
             item_count |-> NoItemCount, limits |-> [title |-> 80, subtitle |-> 120]]
      [] tag = "section_title" ->
            [required_fields |-> << "title" >>, optional_fields |-> << >>,
             item_count |-> NoItemCount, limits |-> [title |-> 60]]
      [] tag = "single_content_with_image" ->
            [required_fields |-> << "title", "description" >>,
             optional_fields |-> << "image_url", "image_alt" >>,
             item_count |-> NoItemCount, limits |-> [title |-> 60]]
      [] tag = "highlight" ->
            [required_fields |-> << "title", "message" >>, optional_fields |-> << >>,
             item_count |-> NoItemCount, limits |-> [title |-> 40, message |-> 200]]
      [] tag = "two_column_list" ->
            [required_fields |-> << "title", "items" >>, optional_fields |-> << >>,
             item_count |-> [min |-> 2, max |-> 4], limits |-> [title |-> 40]]
      [] tag = "two_columns_with_grid" ->
            [required_fields |-> << "title", "items" >>, optional_fields |-> << >>,
             item_count |-> [min |-> 4, max |-> 4], limits |-> [title |-> 40]]
      [] tag = "vertical_list" ->
            [required_fields |-> << "title", "items" >>, optional_fields |-> << >>,
             item_count |-> [min |-> 3, max |-> 6], limits |-> [title |-> 60]]
      [] tag = "horizontal_3_column_list" ->
            [required_fields |-> << "title", "items" >>, optional_fields |-> << >>,
             item_count |-> [min |-> 3, max |-> 3], limits |-> [title |-> 60]]
      [] tag = "horizontal_4_column_list" ->
            [required_fields |-> << "title", "items" >>, optional_fields |-> << >>,
             item_count |-> [min |-> 4, max |-> 4], limits |-> [title |-> 60]]
      [] tag = "image_with_description_2" ->
            [required_fields |-> << "title", "items" >>, optional_fields |-> << >>,
             item_count |-> [min |-> 2, max |-> 2], limits |-> [title |-> 60]]
      [] tag = "image_with_description_3" ->
            [required_fields |-> << "title", "items" >>, optional_fields |-> << >>,
             item_count |-> [min |-> 3, max |-> 3], limits |-> [title |-> 60]]
      [] tag = "three_column_metrics" ->
            [required_fields |-> << "title", "metrics" >>, optional_fields |-> << >>,
             item_count |-> [min |-> 3, max |-> 3], limits |-> [title |-> 60]]
      [] tag = "metrics_grid" ->
            [required_fields |-> << "title", "description", "metrics" >>,
             optional_fields |-> << >>,
             item_count |-> [min |-> 4, max |-> 4], limits |-> [title |-> 40]]
      [] tag = "quote" ->
            [required_fields |-> << "quote_text", "author_name" >>,
             optional_fields |-> << "author_title", "avatar_url" >>,
             item_count |-> NoItemCount,
             limits |-> [quote |-> 200, author_name |-> 60, author_title |-> 80]]

\* slide_renderer/types.py 642-655: get_content_requirements, a copy of the
\* member's dict
get_content_requirements(tag) == ContentRequirements(tag)

\* the names in a list of field names
FieldNames(q) == { q[k] : k \in 1..Len(q) }

\* a content mapping built from the requirements of a tag: exactly the
\* required fields, a list (of the smallest item_count, its items as the
\* renderer's item model wants them) where the tag's schema has a list of
\* that name and a string otherwise, of the stated max length where one is
\* stated and of one character where none is
FromRequirements(tag) ==
    LET req == get_content_requirements(tag)
        schema == SLIDE_CONTENT_MODELS(tag)
    IN  [n \in FieldNames(req.required_fields) |->
            IF n \in Names(schema) /\ FieldOf(schema, n).kind = "list"
            THEN Items(FieldOf(schema, n).item, req.item_count.min)
            ELSE Txt(IF n \in DOMAIN req.limits THEN req.limits[n] ELSE 1)]

\* slide types that are no key of the registry
UnknownTypes == { "bullet_list", "Title_Slide", "" }

\* content.py 251-270: a call of get_content_model
GetContentModelCall ==
    /\ entry = "get_content_model"
    /\ result = NoResult
    /\ result' = get_content_model(args.slide_type)
    /\ UNCHANGED << callVars, sessionVars, pipelineVars, convVars >>

\* slide_renderer/renderer.py 87-109: a call of validate_content
ValidateContentCall ==
    /\ entry = "validate_content"
    /\ result = NoResult
    /\ result' = validate_content(args.slide_type, args.content)
    /\ UNCHANGED << callVars, sessionVars, pipelineVars, convVars >>

\* slide_renderer/llm_output.py 277-287: a call of validate_slide_type
ValidateSlideTypeCall ==
    /\ entry = "validate_slide_type"
    /\ result = NoResult
    /\ result' = Ok(validate_slide_type(args.slide_type))
    /\ UNCHANGED << callVars, sessionVars, pipelineVars, convVars >>

\* slide_renderer/types.py 642-655: a call of get_content_requirements on
\* the member of a tag
GetContentRequirementsCall ==
    /\ entry = "get_content_requirements"
    /\ result = NoResult
    /\ result' = Ok(get_content_requirements(args.slide_type))
    /\ UNCHANGED << callVars, sessionVars, pipelineVars, convVars >>

InitValidate ==
    /\ entry \in { "get_content_model", "validate_content", "validate_slide_type",
                   "get_content_requirements" }
    /\ NoSession
    /\ paper = "nested"
    /\ apiKey = TRUE
    /\ maxSlides = DefaultMaxSlides
    /\ plan = NoPlan
    /\ maxRetries = DefaultMaxRetries
    /\ NoTasks
    /\ orch = "idle"
    /\ slidesOut = << >>
    /\ NotPlanned
    /\ conv = "idle"
    /\ NotConverted
    /\ result = NoResult
    /\ \/ /\ entry \in { "get_content_model", "validate_slide_type" }
          /\ args \in { [slide_type |-> t, content |-> << >>] :
                         t \in ContentModelKeys \cup UnknownTypes }
       \/ /\ entry = "get_content_requirements"
          /\ args \in { [slide_type |-> t, content |-> << >>] : t \in SlideTypeEnum }
       \/ /\ entry = "validate_content"
          /\ args \in UNION { { [slide_type |-> t, content |-> c] :
                                  c \in Variants(SLIDE_CONTENT_MODELS(t))
                                           \cup { FromRequirements(t) } } :
                             t \in ContentModelKeys }
                       \cup { [slide_type |-> t, content |-> c] :
                                t \in UnknownTypes, c \in RenderContents }

NextValidate ==
    \/ GetContentModelCall
    \/ ValidateContentCall
    \/ ValidateSlideTypeCall
    \/ GetContentRequirementsCall

SpecValidate == InitValidate /\ [][NextValidate]_vars

(***************************************************************************)
(* Helpers of the properties.                                              *)
(***************************************************************************)
\* the sequence t occurs in the sequence s, contiguously
Contains(s, t) ==
    \E k \in 0..(Len(s) - Len(t)) : \A x \in 1..Len(t) : s[k + x] = t[x]

\* the response parses as JSON and satisfies the model of the slide type
ParsesAndValidates(tag, r) ==
    /\ r.kind = "json"
    /\ ModelErrors(SLIDE_TYPE_MODELS(tag), r.data, 1) = << >>

\* this step is task i handling a response
Responds(i) == task[i].st = "awaiting" /\ task'[i] # task[i]

FeedbackHeader == << "**VALIDATION FEEDBACK FROM PREVIOUS ATTEMPT**:" >>

(***************************************************************************)
(* C1: whatever max_retries R >= 0 is, a task whose attempts all fail      *)
(* makes exactly R + 1 collaborator calls and then returns None; it does   *)
(* not give up earlier and does not raise.                                 *)
(***************************************************************************)
C1_ExhaustionReturnsNone ==
    \A i \in Tasks :
        /\ failures[i] <= maxRetries + 1
        /\ outcome[i].kind = "none" <=> failures[i] = maxRetries + 1
        /\ outcome[i].kind = "none" =>
              task[i].st = "returned" /\ calls[i] = maxRetries + 1 /\ inflight[i] = {}
        /\ outcome[i].kind = "exception" => calls[i] = 0 /\ PreambleRaises(paper)
        /\ (task[i].st # "created" /\ outcome[i].kind = "pending") =>
              task[i].st = "awaiting" /\ calls[i] = failures[i] + 1

C1_Witness ==
    \E i \in Tasks :
        /\ maxRetries = DefaultMaxRetries
        /\ outcome[i].kind = "none"
        /\ calls[i] = 3

(***************************************************************************)
(* C2: the attempts of one task follow Attempting(n) -> Success |          *)
(* Attempting(n+1) | Failed.  A new attempt is the first one or follows    *)
(* the failure of the one before, with n < max_retries; a response that    *)
(* parses and validates ends the task with its content; a finished task    *)
(* makes no further attempt; None is returned only from attempt            *)
(* max_retries; at most one attempt of a task is in flight.                *)
(***************************************************************************)
C2_Step(i) ==
    LET t == task[i]
        u == task'[i]
        tag == outlines[i].type.tok
    IN  /\ calls'[i] \in { calls[i], calls[i] + 1 }
        /\ calls'[i] = calls[i] + 1 =>
              \/ t.st = "created" /\ u.st = "awaiting" /\ u.attempt = 0
              \/ /\ t.st = "awaiting" /\ u.st = "awaiting"
                 /\ u.attempt = t.attempt + 1
                 /\ t.attempt < maxRetries
                 /\ ~ParsesAndValidates(tag, lastResp'[i])
                 /\ inflight[i] = { t.attempt }
        /\ (Responds(i) /\ ParsesAndValidates(tag, lastResp'[i])) =>
              /\ u.st = "returned"
              /\ outcome'[i] = ReturnedContent(
                    ModelDump(SLIDE_TYPE_MODELS(tag), lastResp'[i].data))
              /\ calls'[i] = calls[i]
        /\ (outcome'[i].kind = "content" /\ outcome[i].kind # "content") =>
              Responds(i) /\ ParsesAndValidates(tag, lastResp'[i])
        /\ t.st \in { "returned", "raised" } =>
              task'[i] = t /\ outcome'[i] = outcome[i] /\ calls'[i] = calls[i]
        /\ (outcome'[i].kind = "none" /\ outcome[i].kind # "none") =>
              /\ Responds(i)
              /\ t.attempt = maxRetries
              /\ ~ParsesAndValidates(tag, lastResp'[i])
        /\ Cardinality(inflight'[i]) <= 1
        /\ u.st = "awaiting" <=> inflight'[i] = { u.attempt }
        /\ u.st # "awaiting" => inflight'[i] = {}

C2_AttemptStateMachine == [][\A i \in Tasks : C2_Step(i)]_vars

C2_Witness ==
    \E i \in Tasks :
        /\ outcome[i].kind = "content"
        /\ failures[i] = 1
        /\ calls[i] = 2
        /\ maxRetries = DefaultMaxRetries

(***************************************************************************)
(* C3: the user message of a retry contains the error text of the attempt  *)
(* that failed just before it, whatever that text is; the message of the   *)
(* first attempt has no feedback section; the content a task returns has   *)
(* the field values the collaborator gave, none repaired.                  *)
(***************************************************************************)
C3_FeedbackVerbatim ==
    \A i \in Tasks :
        LET t == task[i]
            tag == outlines[i].type.tok
        IN  /\ (t.st = "awaiting" /\ t.attempt > 0) =>
                  /\ ~ParsesAndValidates(tag, lastResp[i])
                  /\ t.validation_feedback = Feedback(AttemptError(tag, lastResp[i]))
                  /\ Contains(t.messages.user, AttemptError(tag, lastResp[i]))
                  /\ AttemptError(tag, lastResp[i]) # << >> =>
                        Contains(t.messages.user,
                                 FeedbackHeader
                                    \o << "The previous generation failed validation with the following error:" >>
                                    \o AttemptError(tag, lastResp[i]))
            /\ (t.st = "awaiting" /\ t.attempt = 0) =>
                  ~Contains(t.messages.user, FeedbackHeader)
            /\ outcome[i].kind = "content" =>
                  /\ ParsesAndValidates(tag, lastResp[i])
                  /\ \A n \in DOMAIN outcome[i].content :
                        outcome[i].content[n] = lastResp[i].data[n]

C3_Witness ==
    \E i \in Tasks :
        /\ task[i].st = "awaiting"
        /\ task[i].attempt = 2
        /\ lastResp[i].kind = "json"
        /\ Contains(task[i].messages.user, << "title", "string_too_long" >>)

(***************************************************************************)
(* C8: an attempt that fails by a collaborator fault or by output that is  *)
(* no JSON is handled as a validation failure is: it uses up one attempt,  *)
(* is retried while attempts remain, ends the task with None otherwise,    *)
(* and never raises out of the task.                                       *)
(***************************************************************************)
C8_Step(i) ==
    LET t == task[i]
        u == task'[i]
    IN  (Responds(i) /\ ~ParsesAndValidates(outlines[i].type.tok, lastResp'[i])) =>
            /\ failures'[i] = failures[i] + 1
            /\ outcome'[i].kind # "exception"
            /\ u.st # "raised"
            /\ IF t.attempt < maxRetries
               THEN /\ u.st = "awaiting"
                    /\ u.attempt = t.attempt + 1
                    /\ calls'[i] = calls[i] + 1
                    /\ outcome'[i].kind = "pending"
               ELSE /\ u.st = "returned"
                    /\ outcome'[i] = ReturnedNone
                    /\ calls'[i] = calls[i]

C8_FaultsAreRetried == [][\A i \in Tasks : C8_Step(i)]_vars

C8_Witness ==
    \E i \in Tasks :
        /\ lastResp[i].kind = "fault"
        /\ task[i].st = "awaiting"
        /\ task[i].attempt = 2

(***************************************************************************)
(* Helpers of the batch properties.                                        *)
(***************************************************************************)
\* the tasks that returned content
Succeeded == { i \in Tasks : outcome[i].kind = "content" }
\* the position of a succeeded task among the succeeded tasks
Rank(i) == Cardinality({ j \in Succeeded : j <= i })

(***************************************************************************)
(* C4: phase2_generate_all_slides returns the contents of the tasks that   *)
(* succeeded, one entry each, in the order of their outlines in            *)
(* plan.slides, whatever the other tasks did and in whatever order the     *)
(* tasks finished.                                                         *)
(***************************************************************************)
C4_SurvivorsInPlanOrder ==
    orch = "returned" =>
        /\ Len(slidesOut) = Cardinality(Succeeded)
        /\ \A i \in Succeeded : slidesOut[Rank(i)] = outcome[i].content

C4_Witness ==
    /\ orch = "returned"
    /\ Len(outlines) = 3
    /\ outOfOrder
    /\ outcome[1].kind = "content"
    /\ outcome[2].kind = "none"
    /\ outcome[3].kind = "content"
    /\ outcome[1].content # outcome[3].content
    /\ slidesOut = << outcome[1].content, outcome[3].content >>

(***************************************************************************)
(* C5: a task that raised makes phase2_generate_all_slides neither raise   *)
(* nor return anything for it: the call raises only for a missing API      *)
(* key, before any task exists, and every entry of the returned list is    *)
(* the content of a task that succeeded, every success being in the list.  *)
(***************************************************************************)
C5_FaultsAreDropped ==
    /\ orch = "raised" => ~apiKey /\ outlines = << >>
    /\ orch = "returned" =>
          /\ \A k \in 1..Len(slidesOut) :
                \E i \in Succeeded : slidesOut[k] = outcome[i].content
          /\ \A i \in Succeeded :
                \E k \in 1..Len(slidesOut) : slidesOut[k] = outcome[i].content
          /\ Len(slidesOut) =
                Len(outlines)
                    - Cardinality({ i \in Tasks : outcome[i].kind \in { "none", "exception" } })

C5_Witness ==
    /\ orch = "returned"
    /\ Len(outlines) = 3
    /\ \E i \in Tasks : outcome[i].kind = "exception"
    /\ slidesOut = << >>

(***************************************************************************)
(* C6: phase2_generate_all_slides returns only when every task it started  *)
(* has returned or raised, and while it waits a task that has not finished *)
(* can always take its next step, whatever its siblings have done.         *)
(***************************************************************************)
C6_WaitsForAllTasks ==
    /\ orch = "returned" => \A i \in Tasks : IsDone(task[i])
    /\ orch = "gathering" =>
          \A i \in Tasks :
              /\ task[i].st = "created" => ENABLED TaskStart(i)
              /\ task[i].st = "awaiting" =>
                    ENABLED (\E r \in BatchResponses : TaskRespond(i, r))

C6_Witness ==
    /\ orch = "gathering"
    /\ \E i, j \in Tasks :
          /\ outcome[i].kind = "none"
          /\ task[j].st = "awaiting"
          /\ task[j].attempt = 0

(***************************************************************************)
(* C7: the tasks of a batch are independent.  A step of one task changes   *)
(* nothing of any other task, and the attempts, the messages (retry        *)
(* feedback included) and the result of each task are given by its own     *)
(* outline, the shared paper_data and max_retries, and the responses it    *)
(* got itself.                                                             *)
(***************************************************************************)
C7_Own(i) ==
    LET t == task[i]
        o == outlines[i]
        tag == outlines[i].type.tok
    IN  /\ t.st = "created" =>
              calls[i] = 0 /\ failures[i] = 0 /\ outcome[i] = Pending
        /\ t.st = "awaiting" =>
              /\ calls[i] = t.attempt + 1
              /\ failures[i] = t.attempt
              /\ outcome[i] = Pending
              /\ t.validation_feedback =
                    IF t.attempt = 0 THEN NoFeedback
                    ELSE Feedback(AttemptError(tag, lastResp[i]))
              /\ t.messages = Messages(o, paper, t.attempt, t.validation_feedback)
        /\ outcome[i].kind = "content" =>
              /\ outcome[i].content = ModelDump(SLIDE_TYPE_MODELS(tag), lastResp[i].data)
              /\ calls[i] = failures[i] + 1
        /\ outcome[i].kind = "none" =>
              /\ calls[i] = maxRetries + 1
              /\ failures[i] = maxRetries + 1
              /\ ~ParsesAndValidates(tag, lastResp[i])
        /\ outcome[i].kind = "exception" => calls[i] = 0 /\ PreambleRaises(paper)

C7_Frame(i) ==
    (DOMAIN task = DOMAIN task' /\ task'[i] # task[i]) =>
        \A j \in DOMAIN task \ {i} :
            /\ task'[j] = task[j]
            /\ outcome'[j] = outcome[j]
            /\ calls'[j] = calls[j]
            /\ inflight'[j] = inflight[j]
            /\ lastResp'[j] = lastResp[j]
            /\ failures'[j] = failures[j]

\* the step created the tasks or changed task i
C7_Touched(i) == DOMAIN task # DOMAIN task' \/ task'[i] # task[i]

C7_TasksIndependent ==
    [][\A i \in DOMAIN task' : (C7_Touched(i) => C7_Own(i)') /\ C7_Frame(i)]_vars

C7_Witness ==
    \E i, j \in Tasks :
        /\ task[i].st = "awaiting" /\ task[i].attempt = 2
        /\ task[j].st = "awaiting" /\ task[j].attempt = 1
        /\ outlines[i].type = outlines[j].type
        /\ task[i].validation_feedback # task[j].validation_feedback
        /\ outOfOrder

(***************************************************************************)
(* Helpers of the planning properties.                                     *)
(***************************************************************************)
OutlineKeys == { "slide_number", "type", "purpose", "key_points" }

\* the response is a JSON object with every required field of
\* PresentationPlan, a title of at most 100 characters, and outlines that
\* each have every required field, one of the 14 tags, a purpose of at most
\* 200 and key_points of at most 500 characters
FitsPresentationPlan(r) ==
    /\ r.kind = "json"
    /\ { "title", "total_slides", "slides" } \subseteq DOMAIN r.data
    /\ r.data.title.k = "str" /\ r.data.title.len <= 100
    /\ r.data.total_slides.k = "int"
    /\ r.data.slides.k = "list"
    /\ \A i \in 1..Len(r.data.slides.items) :
          LET o == r.data.slides.items[i]
          IN  /\ OutlineKeys \subseteq DOMAIN o
              /\ o.slide_number.k = "int"
              /\ o.type.k = "tag" /\ o.type.tok \in SlideType
              /\ o.purpose.k = "str" /\ o.purpose.len <= 200
              /\ o.key_points.k = "str" /\ o.key_points.len <= 500

(***************************************************************************)
(* C9: in convert_paper_to_presentation phase 1 has returned a plan before *)
(* any phase-2 task exists, and the tasks are those of that plan; if       *)
(* phase 1 raises, the converter raises, no task is started, rendering     *)
(* does not run and no output document is written.                         *)
(***************************************************************************)
C9_PlanningBeforeGeneration ==
    /\ (orch # "idle" \/ task # << >> \/ rendered \/ output # NoFile) =>
          /\ p1 = "returned"
          /\ plan = PlanObject(p1Resp.data)
    /\ task # << >> => outlines = plan.slides
    /\ conv \in { "start", "planning" } =>
          orch = "idle" /\ task = << >> /\ ~rendered /\ output = NoFile
    /\ p1 = "raised" =>
          /\ conv = "raised"
          /\ plan = NoPlan
          /\ orch = "idle"
          /\ task = << >>
          /\ ~rendered
          /\ output = NoFile

C9_Witness ==
    /\ entry = "convert"
    /\ p1 = "raised"
    /\ p1Resp.kind \in { "fault", "text", "json" }
    /\ conv = "raised"

(***************************************************************************)
(* C10: phase1_plan_presentation raises whenever the collaborator faults,  *)
(* answers with text that is no JSON, or answers with a plan that lacks a  *)
(* required field, has an over-long title, purpose or key_points, or has a *)
(* slide type outside the 14 tags; then it returns no plan.  A plan it     *)
(* returns fits PresentationPlan in full and has the collaborator's        *)
(* values.                                                                 *)
(***************************************************************************)
C10_PlanningFailuresRaise ==
    /\ (p1Resp # NoResponse /\ ~FitsPresentationPlan(p1Resp)) =>
          p1 = "raised" /\ plan = NoPlan
    /\ p1 = "raised" => plan = NoPlan
    /\ p1 = "returned" =>
          /\ FitsPresentationPlan(p1Resp)
          /\ plan.title = p1Resp.data.title
          /\ plan.total_slides = p1Resp.data.total_slides
          /\ Len(plan.slides) = Len(p1Resp.data.slides.items)
          /\ \A i \in 1..Len(plan.slides) :
                \A n \in OutlineKeys : plan.slides[i][n] = p1Resp.data.slides.items[i][n]

C10_Witness ==
    /\ entry = "plan"
    /\ p1 = "raised"
    /\ p1Error = "ValidationError"
    /\ p1Resp.kind = "json"
    /\ { "title", "total_slides", "slides" } \subseteq DOMAIN p1Resp.data
    /\ p1Resp.data.title.len <= 100
    /\ \E i \in 1..Len(p1Resp.data.slides.items) :
          LET o == p1Resp.data.slides.items[i]
          IN  OutlineKeys \subseteq DOMAIN o /\ o.type.tok \notin SlideType

(***************************************************************************)
(* C11: every plan phase1_plan_presentation returns has at most max_slides *)
(* outlines, whatever the collaborator answered.                           *)
(***************************************************************************)
C11_PlanWithinMaxSlides ==
    p1 = "returned" => Len(plan.slides) <= maxSlides

(***************************************************************************)
(* C12: in every plan phase1_plan_presentation returns, the slide_number   *)
(* values of the outlines are pairwise distinct.                           *)
(***************************************************************************)
C12_SlideNumbersDistinct ==
    p1 = "returned" =>
        \A i, j \in 1..Len(plan.slides) :
            i # j => plan.slides[i].slide_number # plan.slides[j].slide_number

(***************************************************************************)
(* Helpers of the renderer properties.                                     *)
(***************************************************************************)
\* the entry e renders on its own
Renders(e, validate) ==
    /\ IsMapping(e)
    /\ ~Falsy(GetType(e))
    /\ render(e.type, GetContent(e), validate).ok

Returned == result # NoResult /\ result.ok
RaisedError == result # NoResult /\ ~result.ok

(***************************************************************************)
(* C13: for a batch of K >= 1 entries that all render, render_presentation *)
(* returns the front-matter block (nothing when include_frontmatter is     *)
(* false), then the K fragments in input order with exactly one separator  *)
(* between each adjacent pair: K - 1 separators, none before the first     *)
(* fragment or after the last.                                             *)
(***************************************************************************)
C13_FragmentsJoinedInOrder ==
    (/\ entry = "render_presentation"
     /\ result # NoResult
     /\ Len(args.slides) >= 1
     /\ \A j \in 1..Len(args.slides) : Renders(args.slides[j], args.validate)) =>
        LET K == Len(args.slides)
            md == result.value
            off == IF args.include_frontmatter THEN 1 ELSE 0
        IN  /\ result.ok
            /\ Len(md) = off + 2 * K - 1
            /\ args.include_frontmatter => md[1] = Frontmatter
            /\ Cardinality({ i \in 1..Len(md) : md[i] = Frontmatter }) = off
            /\ \A j \in 1..K :
                  /\ md[off + 2 * j - 1].kind = "slide"
                  /\ md[off + 2 * j - 1].type = args.slides[j].type
                  /\ ~args.validate => md[off + 2 * j - 1].content = GetContent(args.slides[j])
            /\ \A j \in 1..(K - 1) : md[off + 2 * j] = Separator
            /\ Cardinality({ i \in 1..Len(md) : md[i] = Separator }) = K - 1

C13_Witness ==
    /\ entry = "render_presentation"
    /\ Returned
    /\ Len(args.slides) = 3
    /\ args.slides[1].type = "quote"
    /\ args.slides[2].type = "title_slide"
    /\ args.validate
    /\ args.include_frontmatter
    /\ Len(result.value) = 6

\* the position of the first entry of the batch that does not render
FirstFailing(slides, validate) ==
    CHOOSE i \in 1..Len(slides) :
        /\ ~Renders(slides[i], validate)
        /\ \A j \in 1..(i - 1) : Renders(slides[j], validate)

\* the tag an entry carries: the value of its 'type', None when it has none
TagOf(e) == IF IsMapping(e) THEN Shown(GetType(e)) ELSE "None"

(***************************************************************************)
(* C14: when render_presentation fails on an entry, for whatever cause     *)
(* (unknown tag, invalid content, missing template, missing 'type', an     *)
(* entry that is no mapping), the error it raises names the 0-based index  *)
(* of that entry and the tag of that same entry.                           *)
(***************************************************************************)
C14_ErrorNamesIndexAndTag ==
    (entry = "render_presentation" /\ RaisedError) =>
        LET i == FirstFailing(args.slides, args.validate)
        IN  /\ result.error.type = "ValueError"
            /\ Len(result.error.detail) >= 2
            /\ result.error.detail[1] = ToString(i - 1)
            /\ result.error.detail[2] = TagOf(args.slides[i])

\* some entry of the batch does not render
SomeFails(slides, validate) == \E i \in 1..Len(slides) : ~Renders(slides[i], validate)

(***************************************************************************)
(* C15: render_presentation is all-or-nothing: if an entry fails it raises *)
(* at the first failing entry in input order, having taken up no later     *)
(* entry, and returns no partial document; through save_presentation and   *)
(* render_slides_to_markdown no output file is written in that case.       *)
(***************************************************************************)
C15_AllOrNothing ==
    /\ (entry \in { "render_presentation", "save_presentation" } /\ result # NoResult) =>
          IF SomeFails(args.slides, args.validate)
          THEN /\ ~result.ok
               /\ result.value = << >>
               /\ result.entered = FirstFailing(args.slides, args.validate)
               /\ output = NoFile
          ELSE /\ result.ok
               /\ entry = "save_presentation" => output # NoFile
    /\ (entry = "render_slides_to_markdown" /\ rendered) =>
          IF SomeFails(SlidesData(args.slides), TRUE)
          THEN conv = "raised" /\ output = NoFile
          ELSE conv = "returned" /\ output # NoFile

C15_Witness ==
    /\ entry = "save_presentation"
    /\ RaisedError
    /\ Len(args.slides) = 3
    /\ FirstFailing(args.slides, args.validate) = 2
    /\ Renders(args.slides[3], args.validate)
    /\ output = NoFile

(***************************************************************************)
(* C16: render(tag, content, validate=True) runs the validator before the  *)
(* template lookup and the rendering: an unknown tag fails in the          *)
(* validator, invalid content raises the validation error and nothing is   *)
(* rendered.  render(tag, content, validate=False) validates nothing:      *)
(* content that violates the tag's schema goes to the template unchanged.  *)
(***************************************************************************)
C16_ValidateFlag ==
    (entry = "render" /\ result # NoResult) =>
        LET v == validate_content(args.slide_type, args.content)
        IN  IF args.validate
            THEN /\ ~v.ok => /\ ~result.ok
                             /\ result.value = << >>
                             /\ result.error = v.error
                 /\ args.slide_type \notin SlideType =>
                        result.error.cause = "Invalid slide type"
                 /\ v.ok => /\ result.ok
                            /\ result.value.content = v.value
            ELSE /\ result.ok =>
                        /\ result.value.type = args.slide_type
                        /\ result.value.content = args.content
                 /\ ~result.ok =>
                        result.error.cause \notin { "Validation error", "Invalid slide type" }

C16_Witness ==
    /\ entry = "render"
    /\ ~args.validate
    /\ Returned
    /\ ~validate_content(args.slide_type, args.content).ok
    /\ result.value.content = args.content

(***************************************************************************)
(* Helpers of the validation properties.                                   *)
(***************************************************************************)
Validated == entry = "validate_content" /\ result # NoResult
KnownType == args.slide_type \in SlideType
Rejected == ~result.ok /\ result.error.type = "ValueError"

\* the items of the list field f of the content c, none if c has no such list
ItemsOf(c, f) ==
    IF f.name \in DOMAIN c /\ c[f.name].k = "list" THEN c[f.name].items ELSE << >>

\* some string of c, at the top level or in an item, is longer than the
\* max_length its field declares
SomeTooLong(schema, c) ==
    \E f \in Fields(schema) :
        \/ /\ f.kind = "str" /\ f.bounded
           /\ f.name \in DOMAIN c
           /\ c[f.name].len > f.max
        \/ /\ f.kind = "list"
           /\ \E i \in 1..Len(ItemsOf(c, f)) : \E g \in Fields(f.item) :
                 /\ g.bounded
                 /\ g.name \in DOMAIN ItemsOf(c, f)[i]
                 /\ ItemsOf(c, f)[i][g.name].len > g.max

\* some list of c is shorter than min_length or longer than max_length
SomeBadLength(schema, c) ==
    \E f \in Fields(schema) :
        /\ f.kind = "list"
        /\ f.name \in DOMAIN c
        /\ (Len(c[f.name].items) < f.min \/ Len(c[f.name].items) > f.max)

\* some field of the model, or of an item model, is absent from c
SomeMissing(schema, c) ==
    \E f \in Fields(schema) :
        \/ f.name \notin DOMAIN c
        \/ /\ f.kind = "list"
           /\ \E i \in 1..Len(ItemsOf(c, f)) : \E g \in Fields(f.item) :
                 g.name \notin DOMAIN ItemsOf(c, f)[i]

\* the length of the list field n of the content of the call
Count(n) == Len(args.content[n].items)

(***************************************************************************)
(* C17: the schema lookup and the validation fail with the unknown slide   *)
(* type error for every tag outside the 14 tags, whatever the content, and *)
(* the lookup finds the schema of each of the 14 tags.                     *)
(***************************************************************************)
C17_UnknownTypeRejected ==
    (entry \in { "get_content_model", "validate_content" } /\ result # NoResult) =>
        /\ ContentModelKeys = SlideType
        /\ ~KnownType =>
              /\ Rejected
              /\ result.error.cause = "Invalid slide type"
        /\ KnownType =>
              /\ entry = "get_content_model" =>
                    result.ok /\ result.value = SLIDE_CONTENT_MODELS(args.slide_type)
              /\ ~result.ok => result.error.cause = "Validation error"

C17_Witness ==
    /\ Validated
    /\ args.slide_type = "bullet_list"
    /\ args.content = [title |-> Txt(80), subtitle |-> Txt(120)]
    /\ Rejected

C19_CardinalityBoundary ==
    (Validated /\ KnownType) =>
        LET schema == SLIDE_CONTENT_MODELS(args.slide_type)
            c == args.content
            base == BaseContent(schema)
        IN  /\ SomeBadLength(schema, c) => Rejected
            /\ \A f \in { g \in Fields(schema) : g.kind = "list" } :
                  c \in { [base EXCEPT ![f.name] = Items(f.item, n)] : n \in { f.min, f.max } }
                      => result.ok
            /\ (args.slide_type = "horizontal_3_column_list" /\ result.ok) =>
                  Count("items") = 3
            /\ (args.slide_type = "vertical_list" /\ result.ok) =>
                  Count("items") \in 3..6
            /\ (args.slide_type = "vertical_list" /\ c \in { [base EXCEPT !.items = Items(ListItem, n)] : n \in { 3, 6 } }) =>
                  result.ok
            /\ (args.slide_type = "image_with_description_2" /\ result.ok) =>
                  Count("images") = 2 /\ Count("items") = 2

C19_Witness ==
    /\ Validated
    /\ args.slide_type = "vertical_list"
    /\ DOMAIN args.content = { "title", "items" }
    /\ Count("items") = 7
    /\ ~SomeTooLong(SLIDE_CONTENT_MODELS("vertical_list"), args.content)
    /\ Rejected

OwnFields(schema, d) == [n \in DOMAIN d \cap Names(schema) |-> d[n]]

\* the content c handed to the template is the caller's d cut to the schema
CutToSchema(schema, c, d) ==
    /\ DOMAIN c = Names(schema)
    /\ \A n \in Names(schema) :
          LET f == FieldOf(schema, n)
          IN  IF f.kind # "list" THEN c[n] = d[n]
              ELSE /\ Len(c[n].items) = Len(d[n].items)
                   /\ \A i \in 1..Len(c[n].items) :
                         /\ DOMAIN c[n].items[i] = Names(f.item)
                         /\ \A g \in Names(f.item) : c[n].items[i][g] = d[n].items[i][g]

C21_ExtraKeysDropped ==
    (entry = "render" /\ result # NoResult /\ args.validate
        /\ args.slide_type \in ContentModelKeys) =>
        LET schema == SLIDE_CONTENT_MODELS(args.slide_type)
        IN  /\ result.ok = render(args.slide_type, OwnFields(schema, args.content), TRUE).ok
            /\ result.ok => CutToSchema(schema, result.value.content, args.content)

C21_Witness ==
    /\ entry = "render"
    /\ args.validate
    /\ Returned
    /\ args.slide_type = "two_column_list"
    /\ "notes" \in DOMAIN args.content
    /\ "icon" \in DOMAIN args.content.items.items[1]
    /\ DOMAIN result.value.content = { "title", "items" }
    /\ DOMAIN result.value.content.items.items[1] = { "title", "description" }

(***************************************************************************)
(* C22: rendering is deterministic and leaves the caller's objects alone:  *)
(* two calls of render, or of render_presentation, with the same arguments *)
(* on the same renderer return the same markdown whatever calls were made  *)
(* between them, and after every call the mapping (the batch) that was     *)
(* passed holds what it held before.                                       *)
(***************************************************************************)
SameCall(a, b) ==
    /\ a.op = b.op
    /\ a.slide_type = b.slide_type
    /\ a.obj = b.obj
    /\ a.validate = b.validate

C23_RegistriesCoincide ==
    /\ Cardinality(ContentModelKeys) = 14
    /\ SlideTypeEnum = ContentModelKeys
    /\ SLIDE_TYPE_VALUES = ContentModelKeys
    /\ SlideTypeLiteral = ContentModelKeys
    /\ SlideType = ContentModelKeys
    /\ SlideTypeModelKeys = ContentModelKeys
    /\ \A t \in ContentModelKeys :
          /\ Len(SLIDE_CONTENT_MODELS(t)) >= 1
          /\ Len(SLIDE_TYPE_MODELS(t)) >= 1
    /\ (entry = "get_content_model" /\ result # NoResult) =>
          /\ result.ok = (args.slide_type \in SlideTypeLiteral)
          /\ result.ok => result.value = SLIDE_CONTENT_MODELS(args.slide_type)
    /\ (entry = "validate_slide_type" /\ result # NoResult) =>
          result.value = (args.slide_type \in SlideTypeLiteral)
    /\ (entry = "validate_content" /\ result # NoResult /\ result.ok) =>
          args.slide_type \in SlideTypeLiteral

C23_Witness ==
    /\ entry = "validate_slide_type"
    /\ result # NoResult
    /\ args.slide_type = "quote"
    /\ result.value = TRUE
    /\ get_content_model(args.slide_type).ok

(***************************************************************************)
(* C24: for content that validates and holds only the fields of the tag's  *)
(* schema (its items only those of the item model), validation and         *)
(* normalization give back the same values: render with validate=True      *)
(* returns what render with validate=False returns.                        *)
(***************************************************************************)
\* the mapping d has no key that is no field, nor have the items of its lists
OnlySchemaFields(schema, d) ==
    /\ DOMAIN d \subseteq Names(schema)
    /\ \A f \in Fields(schema) :
          (f.kind = "list" /\ f.name \in DOMAIN d /\ d[f.name].k = "list") =>
              \A i \in 1..Len(d[f.name].items) :
                  DOMAIN d[f.name].items[i] \subseteq Names(f.item)

C24_ValidationKeepsValues ==
    (/\ entry = "render"
     /\ result # NoResult
     /\ args.slide_type \in ContentModelKeys
     /\ OnlySchemaFields(SLIDE_CONTENT_MODELS(args.slide_type), args.content)
     /\ validate_content(args.slide_type, args.content).ok) =>
        /\ result.ok
        /\ result = render(args.slide_type, args.content, ~args.validate)
        /\ result.value.content = args.content

C24_Witness ==
    /\ entry = "render"
    /\ args.validate
    /\ Returned
    /\ args.slide_type = "image_with_description_3"
    /\ args.content = BaseContent(SLIDE_CONTENT_MODELS("image_with_description_3"))
    /\ result = render(args.slide_type, args.content, FALSE)

(***************************************************************************)
(* C25: for every tag the required_fields that get_content_requirements    *)
(* reports are the fields the tag's content schema requires, and content   *)
(* built from exactly those fields within the stated limits validates.     *)
(***************************************************************************)
C25_RequirementsMatchSchema ==
    /\ (entry = "get_content_requirements" /\ result # NoResult) =>
          FieldNames(result.value.required_fields)
              = Names(SLIDE_CONTENT_MODELS(args.slide_type))
    /\ (Validated /\ KnownType /\ args.content = FromRequirements(args.slide_type)) =>
          result.ok

(***************************************************************************)
(* Helpers of the properties of render_slides_to_markdown.                 *)
(***************************************************************************)
\* the slide passes the generation module's model for its own type
PassesGeneration(slide) ==
    /\ "type" \in DOMAIN slide
    /\ ModelErrors(SLIDE_TYPE_MODELS(slide.type.tok), slide, 1) = << >>

\* the slide, its 'type' removed, passes the renderer's validation for it
PassesRenderer(slide) ==
    /\ "type" \in DOMAIN slide
    /\ validate_content(slide.type.tok, Without(slide, "type")).ok

FirstCall == entry = "markdown" /\ Len(history) >= 1

(***************************************************************************)
(* C26: a content mapping that passed the generation module's model for    *)
(* its tag passes, its 'type' key removed, the renderer's validation for   *)
(* the same tag, for all 14 tags; a list made of generated slides only     *)
(* never makes render_presentation fail on validation.                     *)
(***************************************************************************)
C26_GeneratedSlidesRender ==
    (FirstCall /\ ~NonEmptyMap(args.figure_map)) =>
        LET given == history[1].given
        IN  (\A k \in 1..Len(given) : PassesGeneration(given[k])) =>
                /\ \A k \in 1..Len(given) : PassesRenderer(given[k])
                /\ history[1].result.ok

(***************************************************************************)
(* C28: the figure-ID substitution preserves validity: slides that satisfy *)
(* the renderer's schema of their tag still satisfy it after               *)
(* convert_figure_ids_to_urls, whatever the figure map, so a list that     *)
(* renders without the substitution renders with it.                       *)
(***************************************************************************)
C28_SubstitutionKeepsValid ==
    (FirstCall /\ NonEmptyMap(args.figure_map)) =>
        LET given == history[1].given
        IN  (\A k \in 1..Len(given) : PassesRenderer(given[k])) =>
                /\ \A k \in 1..Len(given) :
                      PassesRenderer(ConvertSlide(given[k], args.figure_map.map))
                /\ history[1].result.ok

(***************************************************************************)
(* C29: render_slides_to_markdown leaves the caller's list of slide        *)
(* mappings as it was, every mapping with its 'type' key and its fields,   *)
(* for every figure_map (None and an empty map included), and a second     *)
(* call on the same list returns what the first returned.                  *)
(***************************************************************************)
C29_CallerListUnchanged ==
    entry = "markdown" =>
        /\ \A i \in 1..Len(history) : heap.slides = history[i].given
        /\ Len(history) >= 2 => history[2].result = history[1].result

(***************************************************************************)
(* C27: the content a generate_slide task returns for an outline carries   *)
(* the outline's type as its 'type'.                                       *)
(***************************************************************************)
C27_ContentTypeIsOutlineType ==
    entry = "generate_slide" =>
        \A i \in DOMAIN outcome :
            outcome[i].kind = "content" => outcome[i].content.type = outlines[i].type

(***************************************************************************)
(* C30: every failure of render_presentation reaches the caller as the     *)
(* ValueError built in the handler of the loop, naming the slide; no other *)
(* exception type leaves the method, whatever the batch.                   *)
(***************************************************************************)
C30_OnlyValueErrorEscapes ==
    (entry = "render_presentation" /\ RaisedError) =>
        /\ result.error.type = "ValueError"
        /\ result.error.cause # ""
=============================================================================
